---- MODULE Spec2Model ----
(***************************************************************************)
(* casspeed: the admission control of the speed test endpoints             *)
(* (Server.rateLimitMiddleware), the speed test session                    *)
(* (SpeedTestHandler.TestStatus, SpeedTestService.RunTest, testDownload,   *)
(* testUpload), start and shutdown of the server, the admin login and the  *)
(* task scheduler.                                                         *)
(*                                                                         *)
(* The specifications share the variables:                                 *)
(*   Spec         several requests of several clients going through the    *)
(*                middleware; the wrapped handler is any handler.          *)
(*   SpecSession  one request on /api/v1/speedtest/ws going through the    *)
(*                middleware and TestStatus, with the goroutines of its    *)
(*                test run.                                                *)
(*   SpecPhase    one call of testDownload / testUpload (the two have the  *)
(*                same body) statement by statement: the workers, mu, the  *)
(*                WaitGroup, the ticker and the sampler.                   *)
(*   SpecBoot     the start of the process: the configuration is loaded    *)
(*                and validated, the server is created, and it answers     *)
(*                GET requests on its health routes.                       *)
(*   SpecPing     one call of testPing, sample by sample.                  *)
(*   SpecStore    the records that completed sessions hand to the store.   *)
(*   SpecFollow   one client of a server started in either mode: it starts *)
(*                tests (POST .../start), follows them (GET .../ws) and    *)
(*                asks other paths, through the middleware.                *)
(*   SpecShutdown Server.Shutdown with requests and test runs in flight.   *)
(*   SpecLogin    the login attempts on one admin account.                 *)
(*   SpecScheduler the scheduler: its callers, cron and its goroutines.    *)
(***************************************************************************)
EXTENDS Integers, Sequences, FiniteSets, TLC

(***************************************************************************)
(* Configuration (config.Default) and bounds.                              *)
(***************************************************************************)
\* Test.MaxConcurrent and Test.MinInterval (seconds) of config.Default.
MaxConcurrent == 3
MinInterval == 5

\* Requests that can be inside the middleware at once in Spec.
NumRequests == 4
\* Clock readings per second (time.Since(..).Seconds() is a float).
UnitsPerSecond == 2
\* The time since an admission is followed up to MinInterval + ExtraSeconds
\* seconds; beyond that the code cannot tell two values apart.
ExtraSeconds == 1

\* make(chan service.ProgressUpdate, 10) in TestStatus.
ChanCap == 10
\* Ticker periods (200 ms) in the duration of a transfer phase: RunTest(10, ..)
\* has 50 of them.
PhaseTicks == 3
\* SpeedTestService.maxThreads: the workers of a transfer phase.
NumThreads == 2
\* MaxThreads of the service in a whole session (SpecSession).
SessThreads == 1
\* The duration RunTest is given, in ticker periods, in a whole session
\* (SpecSession) and in a session whose client has left (SpecGone).
SessTicks == 2
GoneTicks == 3

\* time.Since of the zero time (a fresh entry) is 292 years, far beyond any
\* MinInterval: it reads as LongAgo, like every time since that is followed
\* no further.
LongAgo == (MinInterval + ExtraSeconds) * UnitsPerSecond

\* r.RemoteAddr as the middleware sees it: middleware.RealIP replaces it by
\* the address of a proxy header when the request carries one, and otherwise
\* it is the "IP:port" of the connection that net/http put there. Two
\* connections of one host that reach the server directly.
RemoteAddrs == {"10.0.0.1:40000", "10.0.0.1:40001"}
\* No request holds ipMutex.
NoAddr == ""

WsPath == "/api/v1/speedtest/ws"
StartPath == "/api/v1/speedtest/start"
OtherPath == "/healthz"
Paths == {WsPath, StartPath, OtherPath}

\* The client of the session followed in SpecSession.
SessAddr == "10.0.0.1:40000"

Phases == {"download", "upload"}
Workers == 1..NumThreads
\* The workers of each phase of a session.
SessWorkers == 1..SessThreads
\* Progress is kept as a number of One-ths: One is 1.0.
One == SessTicks * GoneTicks
\* The time since the start of a phase that has not started.
NotStarted == -1

\* The holders of mu: a worker, the sampler, or nobody.
TheSampler == 0
NoHolder == -1
\* The time since the client left, while it has not left.
NotCancelled == -1

NoEntry == [activeTests |-> -1, sinceLastTest |-> -1]
NoResp == [addr |-> "", status |-> 0, body |-> "", retryAfter |-> -1]
\* The ways next.ServeHTTP is left.
Hows == {"return", "panic"}

VARIABLES
    \* ---- Server (rateLimitMiddleware) ----
    ipTestCount,   \* Server.ipTestCount: RemoteAddr -> ipRateLimit, NoEntry when
                   \* absent. lastTest is kept as sinceLastTest, the value
                   \* time.Since(lastTest) has now, in clock units up to LongAgo
    ipMutex,       \* Server.ipMutex: the RemoteAddr of the request that holds it
                   \* between its Lock and its admission or rejection, or NoAddr
    serving,       \* RemoteAddr -> the number of its admitted requests that are
                   \* inside next.ServeHTTP
    deferred,      \* RemoteAddr -> how -> the number of its admitted requests
                   \* that left next.ServeHTTP that way and have not run the
                   \* deferred release yet
    resp,          \* the response written by the step just taken, else NoResp
    freed,         \* history: a release took addr off its ceiling and no
                   \* admission attempt of addr has been decided since
    \* ---- SpeedTestHandler.TestStatus (the handler goroutine) ----
    pcH,           \* where TestStatus is: none, range, write, returned
    delivered,     \* the number of updates written to the WebSocket
    failedAt,      \* history: the call RunTest was in when WriteJSON failed
    duration,      \* the duration TestStatus gives RunTest, in ticker periods,
                   \* 0 before the call
    \* ---- the test goroutine of TestStatus (RunTest, then the store) ----
    pcRun,         \* where it is
    progressChan,  \* the buffered channel: the updates in its buffer
    closed,        \* close(progressChan) was executed
    emitted,       \* history: every update sent on progressChan, in order
    stored,        \* the number of CreateSpeedTest calls
    panicked,      \* a goroutine panicked outside any recover: the process died
    \* ---- testDownload / testUpload ----
    elapsed,       \* phase -> the value time.Since(startTime) has now, in
                   \* ticker periods up to duration + 1, NotStarted before
    totalBytes,    \* phase -> totalBytes of the call in progress, in chunks;
                   \* 0 when no call of the phase is in progress
    worker,        \* phase -> worker -> none, run, add, sleep, done
    ticker,        \* phase -> the ticker: running, and a tick waiting in ticker.C
    sampler,       \* phase -> the sampler goroutine: pc and the progress it computed
    \* ---- one call of testDownload / testUpload, statement by statement ----
    callPc,        \* where the call is: none, wait (in wg.Wait), returned
    now,           \* the value time.Since(startTime) has now, in ticker periods
    bytes,         \* the local totalBytes of the call, in chunks
    mu,            \* the local mu of the call: the goroutine holding it
    wg,            \* the WaitGroup counter
    wpc,           \* worker -> none, loop, lock, load, store, unlock, sleep, done
    reg,           \* worker -> the value of totalBytes it loaded for its +=
    tickC,         \* ticker.C: running, and a tick waiting in it
    spc,           \* the sampler: none, wait, check, elapsed, lock, load,
                   \* unlock, send, exit
    currentBytes,  \* the sampler's currentBytes
    finalBytes,    \* the totalBytes the returned throughput was computed from
    mbps,          \* the returned throughput, in bits per second (Mbps * 1e6)
    iterations,    \* history: worker -> the additions it has completed
    lateIterations,\* history: worker -> those completed after the end time
    sinceCancel,   \* history: the ticker periods since the client left
    \* ---- main: config.Load, Config.Validate, server.New ----
    bootPc,        \* where main is: start, loaded, validated, serving, exited
    cfg,           \* the configuration main holds
    bootErr,       \* the error main exited with
    svc,           \* the SpeedTestService of the server: maxThreads, chunkSize
    httpResp,      \* the answer to the GET request just served
    \* ---- one call of testPing ----
    pingPc,        \* where the call is: none, loop, returned
    sampleNo,      \* the loop variable i
    pings,         \* the local pings
    successful,    \* the local successful
    pingResult,    \* what the call returned
    \* ---- the store: table speed_tests ----
    speedTests,    \* the rows of the table: id and share_code
    sessions,      \* the number of sessions that completed their test run
    pendingTest,   \* the record a completed session has built, or NoTest
    createLog,     \* history: every CreateSpeedTest call: id, share code, error
    \* ---- the requests of one client that starts and follows tests ----
    reqPath,       \* r.URL.Path of its request that holds ipMutex, or NoPath
    lastAdmitted,  \* history: r.URL.Path of its request admitted last
    lastPassed,    \* history: r.URL.Path of its request the step just taken
                   \* handed straight to next, or NoPath
    appMode,       \* s.Mode.Mode of the server it talks to, NoMode before New
    \* ---- graceful shutdown ----
    shutPc,        \* where Server.Shutdown is: serving, closed, draining, stopped
    storeOpen,     \* the database handle of s.Store is open
    listening,     \* s.HTTP accepts new connections
    job,           \* the work in flight: its kind and where it is
    storeCalls,    \* history: the store calls issued, by whether the store was open
    \* ---- the admin login ----
    adminRow,      \* the row of table admins for the username, or NoRow
    clock,         \* time.Now(), in ticks of five minutes
    adminSessions, \* the number of rows of table admin_sessions
    loginResp,     \* the status of the last answer of Login, 0 before any
    failedLogins,  \* history: wrong-password attempts since the last login
    lockSince,     \* history: when failedLogins reached MaxFailed, or NotLocked
    login,         \* the login requests being handled: where each is, whether
                   \* its password is right, the attempts it computed, and
                   \* (history) whether it began inside the lock window
    answered,      \* history: the request that was answered last, as it was
    \* ---- the scheduler ----
    task,          \* the Task structs the callers built: their fields, or NoTask
    tasks,         \* s.tasks: task ID -> the struct stored under it, or Nil
    entries,       \* the structs whose runTask closure s.cron holds as an entry
    cronRunning,   \* s.cron has been started and not stopped
    gor,           \* the goroutines inside runTask / retryTask, by struct and pc
    invocations,   \* history: how often task.Handler was called, by struct
    triggers,      \* history: cron ticks and RunTaskNow calls, by struct
    succeeded,     \* history: some call of the struct's handler returned nil
    switched,      \* history: the last of EnableTask / DisableTask that
                   \* returned nil for the struct, "" when none has
    lastCall       \* history: the failed AddTask or the schedule occurrence
                   \* the step just taken was, or NoCall

admVars == <<ipTestCount, ipMutex, serving, deferred, resp, freed>>
handlerVars == <<pcH, delivered, failedAt, duration>>
runVars == <<pcRun, progressChan, closed, emitted, stored, panicked>>
phaseVars == <<elapsed, totalBytes, worker, ticker, sampler>>
sessVars == <<handlerVars, runVars, phaseVars>>
callVars == <<callPc, now, bytes, mu, wg, wpc, reg, tickC, spc, currentBytes,
              finalBytes, mbps, iterations, lateIterations, sinceCancel>>
bootVars == <<bootPc, cfg, bootErr, svc, httpResp>>
pingVars == <<pingPc, sampleNo, pings, successful, pingResult>>
storeVars == <<speedTests, sessions, pendingTest, createLog>>
followVars == <<reqPath, lastAdmitted, lastPassed, appMode>>
shutVars == <<shutPc, storeOpen, listening, job, storeCalls>>
loginVars == <<adminRow, clock, adminSessions, loginResp, failedLogins, lockSince,
               login, answered>>
schedVars == <<task, tasks, entries, cronRunning, gor, invocations, triggers,
               succeeded, switched, lastCall>>
procVars == <<bootVars, pingVars, storeVars, followVars, shutVars, loginVars, schedVars>>
vars == <<admVars, sessVars, callVars, procVars>>

(***************************************************************************)
(* rateLimitMiddleware                                                     *)
(***************************************************************************)
RECURSIVE SumOver(_, _)
SumOver(f, S) ==
    IF S = {} THEN 0
    ELSE LET x == CHOOSE y \in S : TRUE IN f[x] + SumOver(f, S \ {x})

\* The admitted requests of addr whose release is still to come.
Deferred(addr) == SumOver(deferred[addr], Hows)

\* The requests inside the middleware.
InMiddleware ==
    SumOver(serving, RemoteAddrs)
        + SumOver([a \in RemoteAddrs |-> Deferred(a)], RemoteAddrs)
        + (IF ipMutex = NoAddr THEN 0 ELSE 1)

RateLimited_All(path) == TRUE

\* r.URL.Path != ".../ws" && r.URL.Path != ".../start" passes to next.
RateLimited(path) == path = WsPath \/ path = StartPath

AtCeiling_Off(limit) == limit.activeTests > MaxConcurrent

\* limit.activeTests >= s.Config.Test.MaxConcurrent
AtCeiling(limit) == limit.activeTests >= MaxConcurrent

TooSoon_Incl(limit) == limit.sinceLastTest <= MinInterval * UnitsPerSecond

\* secondsSinceLastTest < float64(s.Config.Test.MinInterval)
TooSoon(limit) == limit.sinceLastTest < MinInterval * UnitsPerSecond

\* int(float64(MinInterval) - secondsSinceLastTest): truncation toward zero.
RetryAfter(limit) ==
    (MinInterval * UnitsPerSecond - limit.sinceLastTest) \div UnitsPerSecond

\* A request on a path the middleware does not limit: passed to next.
MwPass(addr, path) ==
    /\ ~RateLimited(path)
    /\ resp' = NoResp
    /\ UNCHANGED <<ipTestCount, ipMutex, serving, deferred, freed>>

\* s.ipMutex.Lock(); look the entry up, create it when absent.
MwLock(addr, path) ==
    /\ RateLimited(path)
    /\ InMiddleware < NumRequests
    /\ ipMutex = NoAddr
    /\ ipMutex' = addr
    /\ ipTestCount' =
          IF ipTestCount[addr] = NoEntry
          THEN [ipTestCount EXCEPT ![addr] = [activeTests |-> 0, sinceLastTest |-> LongAgo]]
          ELSE ipTestCount
    /\ resp' = NoResp
    /\ UNCHANGED <<serving, deferred, freed>>

\* The text of the 429 answer of the ceiling check and of the interval check.
\* (one text for both)
TooManyConcurrent_Same == "Test interval too short"
TooManyConcurrent == "Too many concurrent tests"
IntervalTooShort == "Test interval too short"

\* The two checks, then the admission; the mutex is released on each path.
MwDecide(addr) ==
    /\ ipMutex = addr
    /\ ipMutex' = NoAddr
    /\ freed' = [freed EXCEPT ![addr] = FALSE]
    /\ LET limit == ipTestCount[addr] IN
         IF AtCeiling(limit)
         THEN /\ resp' = [addr |-> addr, status |-> 429,
                          body |-> TooManyConcurrent, retryAfter |-> 60]
              /\ UNCHANGED <<ipTestCount, serving>>
         ELSE IF TooSoon(limit)
         THEN /\ resp' = [addr |-> addr, status |-> 429,
                          body |-> IntervalTooShort,
                          retryAfter |-> RetryAfter(limit)]
              /\ UNCHANGED <<ipTestCount, serving>>
         ELSE /\ ipTestCount' = [ipTestCount EXCEPT ![addr] =
                    [activeTests |-> limit.activeTests + 1, sinceLastTest |-> 0]]
              /\ serving' = [serving EXCEPT ![addr] = @ + 1]
              /\ resp' = NoResp
    /\ UNCHANGED deferred

ReleaseRuns_OnReturn(how) == how = "return"

\* Whether the release runs when next.ServeHTTP is left in the way `how`: it
\* is deferred, so it runs on a return and on a panic alike.
ReleaseRuns(how) == TRUE

\* next.ServeHTTP(w, r) of an admitted request ends: it returns (after any
\* response) or panics.
ServeExit(addr, how) ==
    /\ serving[addr] > 0
    /\ serving' = [serving EXCEPT ![addr] = @ - 1]
    /\ deferred' = IF ReleaseRuns(how)
                   THEN [deferred EXCEPT ![addr][how] = @ + 1]
                   ELSE deferred
    /\ resp' = NoResp
    /\ UNCHANGED <<ipTestCount, ipMutex, freed>>

AfterRelease_Stuck(limit) == limit

\* l.activeTests--
AfterRelease(limit) == [limit EXCEPT !.activeTests = @ - 1]

\* The deferred function: lock, decrement the entry if present, unlock. A
\* panic then goes on to middleware.Recoverer, which answers 500.
MwRelease(addr, how) ==
    /\ deferred[addr][how] > 0
    /\ ipMutex = NoAddr
    /\ deferred' = [deferred EXCEPT ![addr][how] = @ - 1]
    /\ ipTestCount' =
          IF ipTestCount[addr] # NoEntry
          THEN [ipTestCount EXCEPT ![addr] = AfterRelease(@)]
          ELSE ipTestCount
    /\ freed' = [freed EXCEPT ![addr] =
          @ \/ ipTestCount[addr].activeTests = MaxConcurrent]
    /\ resp' = IF how = "panic"
               THEN [addr |-> addr, status |-> 500, body |-> "", retryAfter |-> -1]
               ELSE NoResp
    /\ UNCHANGED <<ipMutex, serving>>

\* One clock unit passes: every time.Since grows by it.
Older(limit) ==
    IF limit = NoEntry \/ limit.sinceLastTest = LongAgo
    THEN limit
    ELSE [limit EXCEPT !.sinceLastTest = @ + 1]

Tick ==
    /\ ipTestCount' = [a \in RemoteAddrs |-> Older(ipTestCount[a])]
    /\ ipTestCount' # ipTestCount
    /\ resp' = NoResp
    /\ UNCHANGED <<ipMutex, serving, deferred, freed>>

(***************************************************************************)
(* The progress channel                                                    *)
(***************************************************************************)
\* A send can proceed: the buffer has room. (A send on a closed channel
\* panics instead.)
HasRoom == Len(progressChan) < ChanCap

\* progressChan <- u
Send(u) ==
    /\ progressChan' = Append(progressChan, u)
    /\ emitted' = Append(emitted, u)

(***************************************************************************)
(* SpeedTestHandler.TestStatus                                             *)
(***************************************************************************)
\* TestStatus returns: next.ServeHTTP of the admitted request ends.
StatusReturns ==
    /\ pcH' = "returned"
    /\ ServeExit(SessAddr, "return")

\* The request of the session arrives at the middleware.
SessArrive ==
    /\ ~panicked
    /\ pcH = "none"
    /\ InMiddleware = 0
    /\ ipTestCount[SessAddr] = NoEntry
    /\ MwLock(SessAddr, WsPath)
    /\ UNCHANGED sessVars

SessDecide ==
    /\ ~panicked
    /\ MwDecide(SessAddr)
    /\ UNCHANGED sessVars

SessRelease ==
    /\ ~panicked
    /\ MwRelease(SessAddr, "return")
    /\ UNCHANGED sessVars

\* h.upgrader.Upgrade; on success the channel is made and the test goroutine
\* started.
StatusUpgrade(ok, d) ==
    /\ ~panicked
    /\ pcH = "none"
    /\ serving[SessAddr] = 1
    /\ IF ok
       THEN /\ pcH' = "range"
            /\ pcRun' = "ping0"
            /\ duration' = d
            /\ UNCHANGED admVars
       ELSE /\ StatusReturns
            /\ UNCHANGED <<pcRun, duration>>
    /\ UNCHANGED <<delivered, failedAt, progressChan, closed, emitted, stored,
                   panicked, phaseVars>>

\* The call RunTest is in at a position of the test goroutine: testDownload
\* (after the "download" update with progress 0, before the one with progress
\* 1.0), testUpload, or neither.
CallOf(pc) ==
    IF pc \in {"dlStart", "dlWait"} THEN "testDownload"
    ELSE IF pc \in {"ulStart", "ulWait"} THEN "testUpload"
    ELSE "other"

\* for update := range progressChan: an update is received from the channel.
StatusReceive ==
    /\ ~panicked
    /\ pcH = "range"
    /\ progressChan # <<>>
    /\ progressChan' = Tail(progressChan)
    /\ pcH' = "write"
    /\ UNCHANGED <<admVars, delivered, failedAt, duration, pcRun, closed, emitted,
                   stored, panicked, phaseVars>>

\* conn.WriteJSON(update) returns: the update is written, or the write has
\* failed (the client has left) and TestStatus returns.
StatusWrite(ok) ==
    /\ ~panicked
    /\ pcH = "write"
    /\ IF ok
       THEN /\ delivered' = delivered + 1
            /\ pcH' = "range"
            /\ UNCHANGED <<admVars, failedAt>>
       ELSE /\ StatusReturns
            /\ failedAt' = CallOf(pcRun)
            /\ UNCHANGED delivered
    /\ UNCHANGED <<duration, runVars, phaseVars>>

\* for update := range progressChan: the channel is closed and empty.
StatusRangeEnds ==
    /\ ~panicked
    /\ pcH = "range"
    /\ progressChan = <<>>
    /\ closed
    /\ StatusReturns
    /\ UNCHANGED <<delivered, failedAt, duration, runVars, phaseVars>>

(***************************************************************************)
(* SpeedTestService.RunTest and the rest of the test goroutine             *)
(***************************************************************************)
\* The sends of RunTest, by position.
SendOf ==
    [ping0    |-> [stage |-> "ping",     progress |-> 0],
     ping1    |-> [stage |-> "ping",     progress |-> One],
     dl0      |-> [stage |-> "download", progress |-> 0],
     dl1      |-> [stage |-> "download", progress |-> One],
     ul0      |-> [stage |-> "upload",   progress |-> 0],
     ul1      |-> [stage |-> "upload",   progress |-> One],
     complete |-> [stage |-> "complete", progress |-> One]]

\* (a goroutine that goes from RunTest straight to its final update)
AfterSend_NoStore ==
    [ping0 |-> "testPing", ping1 |-> "dl0", dl0 |-> "dlStart", dl1 |-> "ul0",
     ul0 |-> "ulStart", ul1 |-> "complete", complete |-> "final"]

\* What follows each send of RunTest.
AfterSend ==
    [ping0 |-> "testPing", ping1 |-> "dl0", dl0 |-> "dlStart", dl1 |-> "ul0",
     ul0 |-> "ulStart", ul1 |-> "complete", complete |-> "store"]

StartPc == [download |-> "dlStart", upload |-> "ulStart"]
WaitPc == [download |-> "dlWait", upload |-> "ulWait"]
\* (a RunTest that goes on to the upload stage without its send of the
\* download update with progress 1.0)
DonePc_Skip == [download |-> "ul0", upload |-> "ul1"]
DonePc == [download |-> "dl1", upload |-> "ul1"]

\* progressChan <- ProgressUpdate{..} in RunTest: blocks while the buffer is full.
RunSend ==
    /\ ~panicked
    /\ pcRun \in DOMAIN SendOf
    /\ HasRoom
    /\ Send(SendOf[pcRun])
    /\ pcRun' = AfterSend[pcRun]
    /\ UNCHANGED <<admVars, handlerVars, closed, stored, panicked, phaseVars>>

\* s.testPing()
RunPing ==
    /\ ~panicked
    /\ pcRun = "testPing"
    /\ pcRun' = "ping1"
    /\ UNCHANGED <<admVars, handlerVars, progressChan, closed, emitted, stored,
                   panicked, phaseVars>>

\* time.Now().Before(endTime) and time.Now().After(endTime), with
\* endTime := startTime.Add(durationSec seconds), in terms of the time since
\* startTime.
BeforeEnd(p) == elapsed[p] < duration
AfterEnd(p) == elapsed[p] > duration

\* testDownload / testUpload up to wg.Wait: the start time is read, the
\* workers are started, the ticker is made and the sampler started.
PhaseStart(p) ==
    /\ ~panicked
    /\ pcRun = StartPc[p]
    /\ elapsed' = [elapsed EXCEPT ![p] = 0]
    /\ totalBytes' = [totalBytes EXCEPT ![p] = 0]
    /\ worker' = [worker EXCEPT ![p] = [w \in SessWorkers |-> "run"]]
    /\ ticker' = [ticker EXCEPT ![p] = [running |-> TRUE, tick |-> FALSE]]
    /\ sampler' = [sampler EXCEPT ![p] = [pc |-> "wait", progress |-> 0]]
    /\ pcRun' = WaitPc[p]
    /\ UNCHANGED <<admVars, handlerVars, progressChan, closed, emitted, stored,
                   panicked>>

\* The totalBytes a worker of phase p adds to: the local variable of its own
\* call, which its closure captured.
\* (one counter for both phases)
CounterOf_Shared(p) == "upload"
CounterOf(p) == p

\* A worker: for time.Now().Before(endTime), one evaluation.
WorkerTest(p, w) ==
    /\ ~panicked
    /\ worker[p][w] = "run"
    /\ worker' = [worker EXCEPT ![p][w] = IF BeforeEnd(p) THEN "add" ELSE "done"]
    /\ UNCHANGED <<admVars, handlerVars, runVars, elapsed, totalBytes, ticker,
                   sampler>>

\* A worker: mu.Lock(); totalBytes += chunkSize; mu.Unlock(), whenever it
\* gets mu; then it sleeps.
WorkerAdd(p, w) ==
    /\ ~panicked
    /\ worker[p][w] = "add"
    /\ totalBytes' = [totalBytes EXCEPT ![CounterOf(p)] = @ + 1]
    /\ worker' = [worker EXCEPT ![p][w] = "sleep"]
    /\ UNCHANGED <<admVars, handlerVars, runVars, elapsed, ticker, sampler>>

\* wg.Wait() returns, the throughput is computed from totalBytes and the call
\* returns: its totalBytes is written no more and the deferred ticker.Stop()
\* runs (a tick waiting in the channel of a stopped ticker is dropped).
PhaseWait(p) ==
    /\ ~panicked
    /\ pcRun = WaitPc[p]
    /\ \A w \in SessWorkers : worker[p][w] = "done"
    /\ ticker' = [ticker EXCEPT ![p] = [running |-> FALSE, tick |-> FALSE]]
    /\ pcRun' = DonePc[p]
    /\ totalBytes' = [totalBytes EXCEPT ![p] = 0]
    /\ UNCHANGED <<admVars, handlerVars, progressChan, closed, emitted, stored,
                   panicked, elapsed, worker, sampler>>

\* The sampler: for range ticker.C receives a tick.
SamplerTick(p) ==
    /\ ~panicked
    /\ sampler[p].pc = "wait"
    /\ ticker[p].tick
    /\ ticker' = [ticker EXCEPT ![p].tick = FALSE]
    /\ sampler' = [sampler EXCEPT ![p].pc = "check"]
    /\ UNCHANGED <<admVars, handlerVars, runVars, elapsed, totalBytes, worker>>

\* if time.Now().After(endTime) { return }
SamplerCheck(p) ==
    /\ ~panicked
    /\ sampler[p].pc = "check"
    /\ sampler' = [sampler EXCEPT ![p].pc = IF AfterEnd(p) THEN "exit" ELSE "compute"]
    /\ UNCHANGED <<admVars, handlerVars, runVars, elapsed, totalBytes, worker,
                   ticker>>

\* progress := elapsed / float64(durationSec), at most 1.0
ProgressAt(e) == IF e > duration THEN One ELSE (e * One) \div duration

\* elapsed, progress and speed are computed (totalBytes is read under mu).
SamplerCompute(p) ==
    /\ ~panicked
    /\ sampler[p].pc = "compute"
    /\ sampler' = [sampler EXCEPT ![p] =
          [pc |-> "send", progress |-> ProgressAt(elapsed[p])]]
    /\ UNCHANGED <<admVars, handlerVars, runVars, elapsed, totalBytes, worker,
                   ticker>>

\* progressChan <- ProgressUpdate{Stage: .., Progress: progress, ..} in the
\* sampler: blocks while the buffer is full, panics on a closed channel.
SamplerSend(p) ==
    /\ ~panicked
    /\ sampler[p].pc = "send"
    /\ IF closed
       THEN /\ panicked' = TRUE
            /\ UNCHANGED <<progressChan, emitted, sampler>>
       ELSE /\ HasRoom
            /\ Send([stage |-> p, progress |-> sampler[p].progress])
            /\ sampler' = [sampler EXCEPT ![p].pc = "wait"]
            /\ UNCHANGED panicked
    /\ UNCHANGED <<admVars, handlerVars, pcRun, closed, stored, elapsed,
                   totalBytes, worker, ticker>>

\* The time since startTime one ticker period later; it is followed up to the
\* first value past the end time, where every reading of the clock gives the
\* same outcome.
Later(e) == IF e = NotStarted \/ e > duration THEN e ELSE e + 1

\* A ticker period passes, whatever the goroutines are doing: every running
\* ticker puts a tick in its channel unless one waits there already, and the
\* sleeps of the workers (10 ms) end.
ClockTick ==
    /\ ~panicked
    /\ elapsed' = [p \in Phases |-> Later(elapsed[p])]
    /\ ticker' = [p \in Phases |->
          IF ticker[p].running THEN [ticker[p] EXCEPT !.tick = TRUE] ELSE ticker[p]]
    /\ worker' = [p \in Phases |-> [w \in SessWorkers |->
          IF worker[p][w] = "sleep" THEN "run" ELSE worker[p][w]]]
    /\ <<elapsed', ticker', worker'>> # <<elapsed, ticker, worker>>
    /\ UNCHANGED <<admVars, handlerVars, runVars, totalBytes, sampler>>

\* After RunTest has returned: the record is built and h.store.CreateSpeedTest
\* is called.
StoreResult ==
    /\ ~panicked
    /\ pcRun = "store"
    /\ stored' = stored + 1
    /\ pcRun' = "final"
    /\ UNCHANGED <<admVars, handlerVars, progressChan, closed, emitted, panicked,
                   phaseVars>>

\* progressChan <- finalUpdate
FinalSend ==
    /\ ~panicked
    /\ pcRun = "final"
    /\ HasRoom
    /\ Send([stage |-> "complete", progress |-> One])
    /\ pcRun' = "close"
    /\ UNCHANGED <<admVars, handlerVars, closed, stored, panicked, phaseVars>>

\* close(progressChan)
CloseChan ==
    /\ ~panicked
    /\ pcRun = "close"
    /\ closed' = TRUE
    /\ pcRun' = "done"
    /\ UNCHANGED <<admVars, handlerVars, progressChan, emitted, stored, panicked,
                   phaseVars>>

(***************************************************************************)
(* One call of testDownload / testUpload, statement by statement           *)
(***************************************************************************)
\* var totalBytes, mu; startTime and endTime; the workers are started
\* (wg.Add(1) each); the ticker is made and the sampler started.
CallStart ==
    /\ callPc = "none"
    /\ callPc' = "wait"
    /\ now' = 0
    /\ bytes' = 0
    /\ mu' = NoHolder
    /\ wg' = NumThreads
    /\ wpc' = [w \in Workers |-> "loop"]
    /\ tickC' = [running |-> TRUE, tick |-> FALSE]
    /\ spc' = "wait"
    /\ UNCHANGED <<reg, currentBytes, finalBytes, mbps, iterations, lateIterations,
                   sinceCancel>>

\* for time.Now().Before(endTime): the loop condition of a worker; when it
\* fails the goroutine ends and the deferred wg.Done() runs.
WLoop(w) ==
    /\ wpc[w] = "loop"
    /\ IF now < PhaseTicks
       THEN /\ wpc' = [wpc EXCEPT ![w] = "lock"]
            /\ UNCHANGED wg
       ELSE /\ wpc' = [wpc EXCEPT ![w] = "done"]
            /\ wg' = wg - 1
    /\ UNCHANGED <<callPc, now, bytes, mu, reg, tickC, spc, currentBytes,
                   finalBytes, mbps, iterations, lateIterations, sinceCancel>>

\* mu.Lock() returns to goroutine g.
\* (a Lock that does not wait for the holder)
CanLock_Always(g) == TRUE
CanLock(g) == mu = NoHolder

\* mu.Lock() in a worker
WLock(w) ==
    /\ wpc[w] = "lock"
    /\ CanLock(w)
    /\ mu' = w
    /\ wpc' = [wpc EXCEPT ![w] = "load"]
    /\ UNCHANGED <<callPc, now, bytes, wg, reg, tickC, spc, currentBytes,
                   finalBytes, mbps, iterations, lateIterations, sinceCancel>>

\* totalBytes += int64(n): the load
WLoad(w) ==
    /\ wpc[w] = "load"
    /\ reg' = [reg EXCEPT ![w] = bytes]
    /\ wpc' = [wpc EXCEPT ![w] = "store"]
    /\ UNCHANGED <<callPc, now, bytes, mu, wg, tickC, spc, currentBytes,
                   finalBytes, mbps, iterations, lateIterations, sinceCancel>>

\* totalBytes += int64(n): the store, which completes the addition
WStore(w) ==
    /\ wpc[w] = "store"
    /\ bytes' = reg[w] + 1
    /\ iterations' = [iterations EXCEPT ![w] = @ + 1]
    /\ lateIterations' = [lateIterations EXCEPT ![w] =
          IF now >= PhaseTicks THEN @ + 1 ELSE @]
    /\ wpc' = [wpc EXCEPT ![w] = "unlock"]
    /\ UNCHANGED <<callPc, now, mu, wg, reg, tickC, spc, currentBytes,
                   finalBytes, mbps, sinceCancel>>

\* mu.Unlock(), then time.Sleep(10 * time.Millisecond) begins
WUnlock(w) ==
    /\ wpc[w] = "unlock"
    /\ mu' = NoHolder
    /\ wpc' = [wpc EXCEPT ![w] = "sleep"]
    /\ UNCHANGED <<callPc, now, bytes, wg, reg, tickC, spc, currentBytes,
                   finalBytes, mbps, iterations, lateIterations, sinceCancel>>

\* for range ticker.C: the sampler receives a tick
STick ==
    /\ spc = "wait"
    /\ tickC.tick
    /\ tickC' = [tickC EXCEPT !.tick = FALSE]
    /\ spc' = "check"
    /\ UNCHANGED <<callPc, now, bytes, mu, wg, wpc, reg, currentBytes,
                   finalBytes, mbps, iterations, lateIterations, sinceCancel>>

\* if time.Now().After(endTime) { return }; else elapsed and progress are
\* computed
SCheck ==
    /\ spc = "check"
    /\ spc' = IF now > PhaseTicks THEN "exit" ELSE "lock"
    /\ UNCHANGED <<callPc, now, bytes, mu, wg, wpc, reg, tickC, currentBytes,
                   finalBytes, mbps, iterations, lateIterations, sinceCancel>>

\* mu.Lock() in the sampler
SLock ==
    /\ spc = "lock"
    /\ CanLock(TheSampler)
    /\ mu' = TheSampler
    /\ spc' = "load"
    /\ UNCHANGED <<callPc, now, bytes, wg, wpc, reg, tickC, currentBytes,
                   finalBytes, mbps, iterations, lateIterations, sinceCancel>>

\* currentBytes := totalBytes
SLoad ==
    /\ spc = "load"
    /\ currentBytes' = bytes
    /\ spc' = "unlock"
    /\ UNCHANGED <<callPc, now, bytes, mu, wg, wpc, reg, tickC, finalBytes, mbps,
                   iterations, lateIterations, sinceCancel>>

\* mu.Unlock() in the sampler; the speed is computed
SUnlock ==
    /\ spc = "unlock"
    /\ mu' = NoHolder
    /\ spc' = "send"
    /\ UNCHANGED <<callPc, now, bytes, wg, wpc, reg, tickC, currentBytes,
                   finalBytes, mbps, iterations, lateIterations, sinceCancel>>

\* progressChan <- ProgressUpdate{..} completes (while the buffer is full
\* the sampler stays here)
SSend ==
    /\ spc = "send"
    /\ spc' = "wait"
    /\ UNCHANGED <<callPc, now, bytes, mu, wg, wpc, reg, tickC, currentBytes,
                   finalBytes, mbps, iterations, lateIterations, sinceCancel>>

\* The chunk size of the call (test.chunk_size), in bytes.
ChunkSize == 1048576
\* The ticker periods in a second: the ticker has 200 ms.
TicksPerSecond == 5
\* No call has returned a throughput.
NotReturned == -1
\* A float64 that is no finite number (a division by an elapsed time of 0).
NotFinite == -2

\* (the throughput over the configured duration)
Throughput_Nominal(chunks, ticks) ==
    (chunks * ChunkSize * 8 * TicksPerSecond) \div PhaseTicks

\* elapsed := time.Since(startTime).Seconds()
\* mbps := (float64(totalBytes) * 8) / elapsed / 1_000_000
\* with totalBytes in chunks and elapsed in ticker periods; the result in bits
\* per second, rounded down.
Throughput(chunks, ticks) ==
    IF ticks = 0 THEN NotFinite
    ELSE (chunks * ChunkSize * 8 * TicksPerSecond) \div ticks

\* (a call that does not wait for its workers)
WaitOver_NoWait == TRUE

\* wg.Wait() returns.
WaitOver == wg = 0

\* wg.Wait() returns; mbps is computed from totalBytes; the call returns and
\* the deferred ticker.Stop() runs.
CallReturn ==
    /\ callPc = "wait"
    /\ WaitOver
    /\ finalBytes' = bytes
    /\ mbps' = Throughput(bytes, now)
    /\ tickC' = [running |-> FALSE, tick |-> FALSE]
    /\ callPc' = "returned"
    /\ UNCHANGED <<now, bytes, mu, wg, wpc, reg, spc, currentBytes, iterations,
                   lateIterations, sinceCancel>>

\* The client leaves while the call runs: a WriteJSON fails and TestStatus
\* returns. Nothing the call reads changes.
Disconnect ==
    /\ callPc = "wait"
    /\ sinceCancel = NotCancelled
    /\ sinceCancel' = 0
    /\ UNCHANGED <<callPc, now, bytes, mu, wg, wpc, reg, tickC, spc,
                   currentBytes, finalBytes, mbps, iterations, lateIterations>>

\* A ticker period passes: the running ticker puts a tick in its channel
\* unless one waits there already, and the sleeps of the workers end. now is
\* followed up to the first value past the end time.
ClockAdvance ==
    /\ callPc # "none"
    /\ now <= PhaseTicks \/ \E w \in Workers : wpc[w] = "sleep"
    /\ now' = IF now <= PhaseTicks THEN now + 1 ELSE now
    /\ tickC' = IF tickC.running THEN [tickC EXCEPT !.tick = TRUE] ELSE tickC
    /\ wpc' = [w \in Workers |-> IF wpc[w] = "sleep" THEN "loop" ELSE wpc[w]]
    /\ sinceCancel' = IF sinceCancel \in {NotCancelled, 2} THEN sinceCancel
                      ELSE sinceCancel + 1
    /\ UNCHANGED <<callPc, bytes, mu, wg, reg, spc, currentBytes, finalBytes, mbps,
                   iterations, lateIterations>>

(***************************************************************************)
(* main: config.Load, Config.Validate, server.New; the health routes        *)
(***************************************************************************)
NoError == ""
NoConfig ==
    [mode |-> "", sslMinVersion |-> "", challenge |-> "", maxConcurrent |-> 0,
     minInterval |-> 0, defaultDuration |-> 0, maxThreads |-> 0,
     chunkSize |-> 0, timeout |-> 0]
NoService == [maxThreads |-> 0, chunkSize |-> 0]
NoHttp == [path |-> "", code |-> 0, status |-> ""]

\* What config.Load can return: the defaults overwritten by any server.yml.
ConfigFiles ==
    [mode : {"production", "staging"},
     sslMinVersion : {"TLS1.2", "TLS1.0"},
     challenge : {"http-01", "none"},
     maxConcurrent : {0, 3},
     minInterval : {-1, 5},
     defaultDuration : {0, 10},
     maxThreads : {0, 1, 16, 17},
     chunkSize : {65535, 65536, 10485760, 10485761},
     timeout : {9, 60}]

\* The --mode flag: absent, or a mode.
ModeFlags == {"", "development"}

\* The bounds of test.max_threads and test.chunk_size in Validate.
MinThreads == 1
MaxThreadsCap == 16
MinChunkSize == 65536
MaxChunkSize == 10485760
MinTimeout == 10

\* (a Validate without the upper bound of the worker count)
ThreadsOutOfRange_NoCap(n) == n < MinThreads

\* c.Test.MaxThreads < 1 || c.Test.MaxThreads > 16
ThreadsOutOfRange(n) == n < MinThreads \/ n > MaxThreadsCap

\* c.Test.ChunkSize < 65536 || c.Test.ChunkSize > 10485760
ChunkOutOfRange(n) == n < MinChunkSize \/ n > MaxChunkSize

\* Config.Validate: the first failing check decides the error.
Validate(c) ==
    IF c.mode # "production" /\ c.mode # "development"
    THEN "invalid mode"
    ELSE IF c.sslMinVersion # "TLS1.2" /\ c.sslMinVersion # "TLS1.3"
    THEN "invalid ssl.min_version"
    ELSE IF c.challenge \notin {"http-01", "tls-alpn-01", "dns-01"}
    THEN "invalid letsencrypt.challenge"
    ELSE IF c.maxConcurrent < 1
    THEN "test.max_concurrent must be >= 1"
    ELSE IF c.minInterval < 0
    THEN "test.min_interval must be >= 0"
    ELSE IF c.defaultDuration < 1
    THEN "test.default_duration must be >= 1"
    ELSE IF ThreadsOutOfRange(c.maxThreads)
    THEN "test.max_threads must be between 1 and 16"
    ELSE IF ChunkOutOfRange(c.chunkSize)
    THEN "test.chunk_size must be between 64KB (65536) and 10MB (10485760)"
    ELSE IF c.timeout < MinTimeout
    THEN "test.timeout must be >= 10 seconds"
    ELSE NoError

\* cfg, err := config.Load(configPath)
BootLoad(c) ==
    /\ bootPc = "start"
    /\ cfg' = c
    /\ bootPc' = "loaded"
    /\ UNCHANGED <<bootErr, svc, httpResp>>

\* config.Load fails (the file cannot be read or parsed): main exits.
BootLoadFails ==
    /\ bootPc = "start"
    /\ bootPc' = "exited"
    /\ bootErr' = "Error loading configuration"
    /\ UNCHANGED <<cfg, svc, httpResp>>

\* The flags override the configuration, then cfg.Validate(): on an error
\* main prints it and exits.
BootValidate(modeFlag) ==
    /\ bootPc = "loaded"
    /\ LET c == IF modeFlag # "" THEN [cfg EXCEPT !.mode = modeFlag] ELSE cfg
       IN  /\ cfg' = c
           /\ bootErr' = Validate(c)
           /\ bootPc' = IF Validate(c) = NoError THEN "validated" ELSE "exited"
    /\ UNCHANGED <<svc, httpResp>>

\* server.New: the store is opened, NewSpeedTestService(cfg.Test.MaxThreads,
\* cfg.Test.ChunkSize); srv.Start.
BootNew(storeOk, listenOk) ==
    /\ bootPc = "validated"
    /\ IF ~storeOk
       THEN /\ bootErr' = "Server initialization error"
            /\ bootPc' = "exited"
            /\ UNCHANGED svc
       ELSE /\ svc' = [maxThreads |-> cfg.maxThreads, chunkSize |-> cfg.chunkSize]
            /\ IF listenOk
               THEN /\ bootPc' = "serving"
                    /\ UNCHANGED bootErr
               ELSE /\ bootErr' = "Server error"
                    /\ bootPc' = "exited"
    /\ UNCHANGED <<cfg, httpResp>>

HealthRoutes == {"/healthz", "/api/v1/healthz"}
GetPaths == HealthRoutes \cup {"/health"}

\* The router's answer to GET path: handleHealth on its two routes (the
\* "status" member of its JSON body is "healthy"), else chi's 404.
Route(path) ==
    IF path \in HealthRoutes
    THEN [path |-> path, code |-> 200, status |-> "healthy"]
    ELSE [path |-> path, code |-> 404, status |-> ""]

HealthGet(path) ==
    /\ bootPc = "serving"
    /\ httpResp' = Route(path)
    /\ UNCHANGED <<bootPc, cfg, bootErr, svc>>

(***************************************************************************)
(* testPing                                                                *)
(***************************************************************************)
\* const samples = 10
Samples == 10

\* time.Since(start).Milliseconds() of a sample. After time.Sleep(1 ms) the
\* value is at least 1; 0 is kept as an input so that the branch of the loop
\* for a sample that does not count (elapsed > 0 is false) is taken as well.
ElapsedMs == {0, 8, 10, 12}

NoPing == [avgMs |-> -1, jitterMs |-> -1, packetLoss |-> -1]

RECURSIVE SumSeq(_)
SumSeq(ps) == IF ps = <<>> THEN 0 ELSE Head(ps) + SumSeq(Tail(ps))

RECURSIVE SumSquares(_)
SumSquares(ps) ==
    IF ps = <<>> THEN 0 ELSE Head(ps) * Head(ps) + SumSquares(Tail(ps))

\* The largest r in lo..hi with r * r <= x (the whole part of math.Sqrt(x)).
RECURSIVE SqrtIn(_, _, _)
SqrtIn(x, lo, hi) ==
    IF lo = hi THEN lo
    ELSE LET mid == (lo + hi + 1) \div 2
         IN  IF mid * mid <= x THEN SqrtIn(x, mid, hi)
             ELSE SqrtIn(x, lo, mid - 1)

\* float64(len(pings)): what sum is divided by.
MeanOver(ps) == Len(ps)

\* avgMs = sum / float64(len(pings)), in thousandths of a millisecond.
AvgMilli(ps) == (SumSeq(ps) * 1000) \div MeanOver(ps)

\* variance, the sum of (p - avgMs)^2 over the n pings, times n: the whole
\* number n * sum of p^2 - (sum of p)^2. Nothing is rounded here.
VarianceTimesN(ps) ==
    Len(ps) * SumSquares(ps) - SumSeq(ps) * SumSeq(ps)

\* (the sample standard deviation: the sum of squares over n - 1)
JitterMilli_Sample(ps) ==
    LET n == Len(ps)
    IN  IF n = 1 THEN 0
        ELSE (SqrtIn((4 * 1000000 * VarianceTimesN(ps)) \div (n * (n - 1)),
                     0, 4000 * Samples) + 1) \div 2

\* jitterMs = math.Sqrt(variance / float64(len(pings))), the root taken of the
\* unrounded quotient: the root of VarianceTimesN divided by n. The value is
\* kept as the nearest thousandth of a millisecond, which is the same for
\* the float64 result and for the real number it approximates (the real
\* root is never half-way between two thousandths for n <= Samples):
\* floor(1000 * root / n + 1/2) = (floor(root of 4 * 10^6 * V) + n) \div 2n.
JitterMilli(ps) ==
    LET n == Len(ps)
    IN  (SqrtIn(4 * 1000000 * VarianceTimesN(ps), 0, 4000 * Samples) + n)
            \div (2 * n)

\* (the share of the samples that succeeded)
LossOf_Successes(n) == (n * 100) \div Samples

\* packetLoss = float64(samples-successful) / float64(samples) * 100
LossOf(n) == ((Samples - n) * 100) \div Samples

\* (no sample succeeded: nothing lost)
AllLost_None == [avgMs |-> 0, jitterMs |-> 0, packetLoss |-> 0]

\* return 0, 0, 100
AllLost == [avgMs |-> 0, jitterMs |-> 0, packetLoss |-> 100]

PingStart ==
    /\ pingPc = "none"
    /\ pingPc' = "loop"
    /\ UNCHANGED <<sampleNo, pings, successful, pingResult>>

\* One iteration of the sample loop, the sample taking e milliseconds.
PingSample(e) ==
    /\ pingPc = "loop"
    /\ sampleNo < Samples
    /\ sampleNo' = sampleNo + 1
    /\ IF e > 0
       THEN pings' = Append(pings, e) /\ successful' = successful + 1
       ELSE UNCHANGED <<pings, successful>>
    /\ UNCHANGED <<pingPc, pingResult>>

\* After the loop: the result.
PingReturn ==
    /\ pingPc = "loop"
    /\ sampleNo = Samples
    /\ pingResult' =
          IF Len(pings) = 0 THEN AllLost
          ELSE [avgMs |-> AvgMilli(pings), jitterMs |-> JitterMilli(pings),
                packetLoss |-> LossOf(successful)]
    /\ pingPc' = "returned"
    /\ UNCHANGED <<sampleNo, pings, successful>>

(***************************************************************************)
(* The store: the record of a completed session, CreateSpeedTest           *)
(***************************************************************************)
\* The sessions followed.
MaxSessions == 5
\* The values GenerateShareCode can return, as numbers.
NumCodes == 2
ShareCodes == 1..NumCodes
\* The empty string as a share code.
EmptyCode == 0
NoTest == [id |-> 0, shareCode |-> EmptyCode]

\* Whether a share code is stored as NULL: test.ShareCode is a Go string, and
\* a string, the empty one too, is stored as TEXT.
IsNull(code) == FALSE

\* The goroutine of TestStatus after RunTest: testID is a fresh UUID;
\* shareCode is "" when the query has share=false and GenerateShareCode()
\* otherwise; the record is built.
StoreBuild(share, code) ==
    /\ pendingTest = NoTest
    /\ sessions < MaxSessions
    /\ sessions' = sessions + 1
    /\ pendingTest' = [id |-> sessions + 1,
                       shareCode |-> IF share THEN code ELSE EmptyCode]
    /\ UNCHANGED <<speedTests, createLog>>

\* The INSERT violates a constraint of speed_tests: id is the PRIMARY KEY,
\* share_code is UNIQUE (among the values that are not NULL).
Conflicts(test) ==
    \E row \in speedTests :
        \/ row.id = test.id
        \/ ~IsNull(test.shareCode) /\ row.shareCode = test.shareCode

\* h.store.CreateSpeedTest(r.Context(), test): the INSERT; its error is
\* returned, and TestStatus drops it. The context of the request is
\* cancelled when TestStatus has returned before (the client left during the
\* test): ExecContext then fails and writes nothing.
StoreCreate(cancelled) ==
    /\ pendingTest # NoTest
    /\ LET err == IF cancelled THEN "context canceled"
                  ELSE IF Conflicts(pendingTest) THEN "UNIQUE constraint failed"
                  ELSE NoError
       IN
       /\ speedTests' = IF err = NoError THEN speedTests \cup {pendingTest}
                        ELSE speedTests
       /\ createLog' = Append(createLog,
             [id |-> pendingTest.id, shareCode |-> pendingTest.shareCode,
              err |-> err])
    /\ pendingTest' = NoTest
    /\ UNCHANGED sessions

\* UpdateSpeedTest: UPDATE speed_tests SET share_code = ?, .. WHERE id = ?,
\* under the same UNIQUE constraint; no row with the id: nothing happens.
StoreUpdate(id, code) ==
    /\ \E row \in speedTests : row.id = id /\ row.shareCode # code
    /\ ~\E other \in speedTests :
           other.id # id /\ ~IsNull(code) /\ other.shareCode = code
    /\ speedTests' = {IF row.id = id THEN [row EXCEPT !.shareCode = code] ELSE row :
                         row \in speedTests}
    /\ UNCHANGED <<sessions, pendingTest, createLog>>

\* DeleteSpeedTest: DELETE FROM speed_tests WHERE id = ?
StoreDelete(id) ==
    /\ \E row \in speedTests : row.id = id
    /\ speedTests' = {row \in speedTests : row.id # id}
    /\ UNCHANGED <<sessions, pendingTest, createLog>>

(***************************************************************************)
(* One client that starts and follows tests                                *)
(***************************************************************************)
NoPath == ""
NoMode == ""
Production == "production"
Development == "development"
Modes == {Production, Development}

\* func (s *State) ShouldEnforceRateLimit() bool { return s.IsProduction() }
ShouldEnforceRateLimit(mode) == mode = Production

\* server.New(cfg, appMode, ...): the server keeps the mode it was given and
\* setupMiddleware installs rateLimitMiddleware whatever that mode is.
FollowNew(mode) ==
    /\ appMode = NoMode
    /\ appMode' = mode
    /\ UNCHANGED <<admVars, reqPath, lastAdmitted, lastPassed>>

\* A request of the client on a path the middleware does not limit.
FollowPass(path) ==
    /\ appMode # NoMode
    /\ MwPass(SessAddr, path)
    /\ lastPassed' = path
    /\ UNCHANGED <<reqPath, lastAdmitted, appMode>>

\* A request of the client on a limited path enters the middleware.
FollowLock(path) ==
    /\ appMode # NoMode
    /\ reqPath = NoPath
    /\ MwLock(SessAddr, path)
    /\ reqPath' = path
    /\ lastPassed' = NoPath
    /\ UNCHANGED <<lastAdmitted, appMode>>

\* The checks of the middleware on that request.
FollowDecide ==
    /\ reqPath # NoPath
    /\ MwDecide(SessAddr)
    /\ reqPath' = NoPath
    /\ lastAdmitted' = IF resp' = NoResp THEN reqPath ELSE lastAdmitted
    /\ lastPassed' = NoPath
    /\ UNCHANGED appMode

\* An admitted request of the client leaves its handler: StartTest returns
\* as soon as it has written its answer, TestStatus when the test is over.
FollowExit(how) ==
    /\ ServeExit(SessAddr, how)
    /\ lastPassed' = NoPath
    /\ UNCHANGED <<reqPath, lastAdmitted, appMode>>

FollowRelease(how) ==
    /\ MwRelease(SessAddr, how)
    /\ lastPassed' = NoPath
    /\ UNCHANGED <<reqPath, lastAdmitted, appMode>>

FollowTick ==
    /\ Tick
    /\ lastPassed' = NoPath
    /\ UNCHANGED <<reqPath, lastAdmitted, appMode>>

(***************************************************************************)
(* Graceful shutdown                                                       *)
(***************************************************************************)
NumJobs == 3
Jobs == 1..NumJobs
\* GetResult runs in the goroutine of its connection; the goroutine TestStatus
\* starts runs on a connection the WebSocket upgrade has hijacked.
Request == "request"
TestRun == "test"
JobKinds == {Request, TestRun}
NoJob == [kind |-> "", pc |-> "idle"]

\* The connections http.Server.Shutdown waits for: those it still tracks.
Tracked(j) == job[j].kind = Request /\ job[j].pc \in {"running", "called"}

\* A request arrives and its work starts.
ShutAccept(j, kind) ==
    /\ listening
    /\ job[j] = NoJob
    /\ job' = [job EXCEPT ![j] = [kind |-> kind, pc |-> "running"]]
    /\ UNCHANGED <<shutPc, storeOpen, listening, storeCalls>>

\* h.store.GetSpeedTest / h.store.CreateSpeedTest: on a closed handle the
\* call returns "sql: database is closed".
ShutStoreCall(j) ==
    /\ shutPc # "stopped"
    /\ job[j].pc = "running"
    /\ job' = [job EXCEPT ![j].pc = "called"]
    /\ storeCalls' = IF storeOpen
                     THEN [storeCalls EXCEPT !.open = @ + 1]
                     ELSE [storeCalls EXCEPT !.closed = @ + 1]
    /\ UNCHANGED <<shutPc, storeOpen, listening>>

\* The handler writes its answer, the goroutine its final update.
ShutFinish(j) ==
    /\ shutPc # "stopped"
    /\ job[j].pc = "called"
    /\ job' = [job EXCEPT ![j].pc = "done"]
    /\ UNCHANGED <<shutPc, storeOpen, listening, storeCalls>>

\* Shutdown, first half: s.Store.Close().
ShutdownClose ==
    /\ shutPc = "serving"
    /\ storeOpen' = FALSE
    /\ shutPc' = "closed"
    /\ UNCHANGED <<listening, job, storeCalls>>

\* Shutdown, second half: s.HTTP.Shutdown(ctx) closes the listeners...
ShutdownListeners ==
    /\ shutPc = "closed"
    /\ listening' = FALSE
    /\ shutPc' = "draining"
    /\ UNCHANGED <<storeOpen, job, storeCalls>>

\* ...and returns when the connections it tracks are idle or ctx is done.
ShutdownReturn(timedOut) ==
    /\ shutPc = "draining"
    /\ timedOut \/ \A j \in Jobs : ~Tracked(j)
    /\ shutPc' = "stopped"
    /\ UNCHANGED <<storeOpen, listening, job, storeCalls>>

(***************************************************************************)
(* The admin login                                                         *)
(***************************************************************************)
MaxFailed == 5
LockTicks == 3
MaxAttempts == 6
MaxClock == 4
NumLogins == 2
MaxAdminSessions == 2
Logins == 1..NumLogins
NullInt == -1
ZeroTime == 0
NotLocked == -1
NoRow == [lastLogin |-> NullInt, failedAttempts |-> -1, lockedUntil |-> NullInt]

\* The row CreateAdmin's INSERT leaves: it names username, password, email,
\* role and enabled, so last_login and locked_until are NULL and
\* failed_attempts is its default 0. No other statement inserts into admins.
CreatedRow == [lastLogin |-> NullInt, failedAttempts |-> 0, lockedUntil |-> NullInt]

\* var lastLoginValid, lockedUntilValid bool: declared, never assigned.
LockedUntilValid == FALSE

\* (a Scan that takes a NULL column as 0, as into a sql.NullInt64)
ScanFails_Never(row) == FALSE

\* Scan of a NULL column into &lastLogin or &lockedUntil, both int64, fails.
ScanFails(row) == row.lastLogin = NullInt \/ row.lockedUntil = NullInt

\* sql.ErrNoRows gives (nil, nil), any other error of Scan (nil, err);
\* LockedUntil is copied only under lockedUntilValid.
GetAdminByUsername(row) ==
    IF row = NoRow
    THEN [err |-> FALSE, found |-> FALSE, FailedAttempts |-> 0, LockedUntil |-> ZeroTime]
    ELSE IF ScanFails(row)
    THEN [err |-> TRUE, found |-> FALSE, FailedAttempts |-> 0, LockedUntil |-> ZeroTime]
    ELSE [err |-> FALSE, found |-> TRUE, FailedAttempts |-> row.failedAttempts,
          LockedUntil |-> IF LockedUntilValid /\ row.lockedUntil > 0
                          THEN row.lockedUntil ELSE ZeroTime]

\* No request: the handler goroutine of a connection between two requests.
NoLogin == [pc |-> "idle", pwOk |-> FALSE, attempts |-> 0, locked |-> FALSE]

\* The account is inside the lock window the claims speak of: it has had
\* MaxFailed failed login attempts, the last of them less than LockTicks ago.
InLockWindow ==
    /\ lockSince # NotLocked
    /\ clock < lockSince + LockTicks

\* The wrong-password attempts that have arrived and are not answered yet.
WrongInFlight ==
    Cardinality({r \in Logins : login[r].pc # "idle" /\ ~login[r].pwOk})

\* The right-password attempts that have arrived and are not answered yet.
RightInFlight ==
    Cardinality({r \in Logins : login[r].pc # "idle" /\ login[r].pwOk})

\* CreateAdmin for the username: the INSERT; username is UNIQUE.
CreateAdmin ==
    /\ adminRow = NoRow
    /\ adminRow' = CreatedRow
    /\ UNCHANGED <<clock, adminSessions, loginResp, failedLogins, lockSince, login,
                   answered>>

\* POST /admin/login arrives with the account's username and a password.
LoginPost(r, pwOk) ==
    /\ login[r] = NoLogin
    /\ pwOk \/ failedLogins + WrongInFlight < MaxAttempts
    /\ pwOk => adminSessions + RightInFlight < MaxAdminSessions
    /\ login' = [login EXCEPT ![r] =
          [pc |-> "read", pwOk |-> pwOk, attempts |-> 0, locked |-> InLockWindow]]
    /\ UNCHANGED <<adminRow, clock, adminSessions, loginResp, failedLogins,
                   lockSince, answered>>

\* The handler up to the password check: GetAdminByUsername, the lock test
\* and VerifyPassword. An error, a missing row and a lock are answered at
\* once; a wrong password so refused for an account that exists is one
\* more failed login attempt. ok: the query itself does not fail (the
\* database open, the context not done).
LoginRead(r, ok) ==
    LET admin == IF ok THEN GetAdminByUsername(adminRow)
                 ELSE [err |-> TRUE, found |-> FALSE, FailedAttempts |-> 0,
                       LockedUntil |-> ZeroTime]
        refused == admin.err \/ ~admin.found
        isLocked == admin.LockedUntil # ZeroTime /\ clock < admin.LockedUntil
        failed == ~login[r].pwOk /\ adminRow # NoRow
    IN
    /\ login[r].pc = "read"
    /\ IF refused \/ isLocked
       THEN /\ loginResp' = IF refused THEN 401 ELSE 403
            /\ failedLogins' = IF failed THEN failedLogins + 1 ELSE failedLogins
            /\ lockSince' = IF failed /\ failedLogins + 1 = MaxFailed
                            THEN clock ELSE lockSince
            /\ login' = [login EXCEPT ![r] = NoLogin]
            /\ answered' = login[r]
       ELSE /\ login' = [login EXCEPT ![r].pc = "verified",
                                      ![r].attempts = admin.FailedAttempts + 1]
            /\ UNCHANGED <<loginResp, failedLogins, lockSince, answered>>
    /\ UNCHANGED <<adminRow, clock, adminSessions>>

\* Wrong password: UpdateAdminFailedAttempts(attempts), its error ignored;
\* below MaxFailed attempts the answer is 401.
LoginCount(r, ok) ==
    /\ login[r].pc = "verified"
    /\ ~login[r].pwOk
    /\ adminRow' = IF ok /\ adminRow # NoRow
                   THEN [adminRow EXCEPT !.failedAttempts = login[r].attempts]
                   ELSE adminRow
    /\ IF login[r].attempts >= MaxFailed
       THEN /\ login' = [login EXCEPT ![r].pc = "lock"]
            /\ UNCHANGED <<loginResp, failedLogins, lockSince, answered>>
       ELSE /\ login' = [login EXCEPT ![r] = NoLogin]
            /\ answered' = login[r]
            /\ loginResp' = 401
            /\ failedLogins' = failedLogins + 1
            /\ lockSince' = IF failedLogins + 1 = MaxFailed THEN clock ELSE lockSince
    /\ UNCHANGED <<clock, adminSessions>>

\* Wrong password, attempts >= MaxFailed: LockAdmin(now + 15 min), its error
\* ignored; the answer is 403.
LoginLock(r, ok) ==
    /\ login[r].pc = "lock"
    /\ adminRow' = IF ok /\ adminRow # NoRow
                   THEN [adminRow EXCEPT !.lockedUntil = clock + LockTicks]
                   ELSE adminRow
    /\ login' = [login EXCEPT ![r] = NoLogin]
    /\ answered' = login[r]
    /\ loginResp' = 403
    /\ failedLogins' = failedLogins + 1
    /\ lockSince' = IF failedLogins + 1 = MaxFailed THEN clock ELSE lockSince
    /\ UNCHANGED <<clock, adminSessions>>

\* Right password: UpdateAdminLastLogin, its error ignored.
LoginReset(r, ok) ==
    /\ login[r].pc = "verified"
    /\ login[r].pwOk
    /\ adminRow' = IF ok /\ adminRow # NoRow
                   THEN [lastLogin |-> clock, failedAttempts |-> 0,
                         lockedUntil |-> NullInt]
                   ELSE adminRow
    /\ login' = [login EXCEPT ![r].pc = "session"]
    /\ UNCHANGED <<clock, adminSessions, loginResp, failedLogins, lockSince,
                   answered>>

\* Right password: CreateAdminSession; the cookie and the redirect, or 500.
LoginSession(r, ok) ==
    /\ login[r].pc = "session"
    /\ login' = [login EXCEPT ![r] = NoLogin]
    /\ answered' = login[r]
    /\ loginResp' = IF ok THEN 303 ELSE 500
    /\ adminSessions' = IF ok THEN adminSessions + 1 ELSE adminSessions
    /\ failedLogins' = IF ok THEN 0 ELSE failedLogins
    /\ lockSince' = IF ok THEN NotLocked ELSE lockSince
    /\ UNCHANGED <<adminRow, clock>>

\* One step of the handler of request r: its next database call, chosen by
\* where the request is, with the code that follows it up to the call after
\* or to the answer. ok: the call succeeds. Each call is a step of its own,
\* so the calls of two requests interleave.
Login(r, ok) ==
    CASE login[r].pc = "read" -> LoginRead(r, ok)
      [] login[r].pc = "verified" /\ ~login[r].pwOk -> LoginCount(r, ok)
      [] login[r].pc = "lock" -> LoginLock(r, ok)
      [] login[r].pc = "verified" /\ login[r].pwOk -> LoginReset(r, ok)
      [] login[r].pc = "session" -> LoginSession(r, ok)
      [] OTHER -> FALSE

\* GET /admin/logout: DeleteAdminSession(cookie.Value) when the request
\* carries the cookie; the row goes if the cookie names one.
Logout(cookie) ==
    /\ adminSessions' = IF cookie /\ adminSessions > 0
                        THEN adminSessions - 1 ELSE adminSessions
    /\ UNCHANGED <<adminRow, clock, loginResp, failedLogins, lockSince, login,
                   answered>>

LoginTick ==
    /\ clock < MaxClock
    /\ clock' = clock + 1
    /\ UNCHANGED <<adminRow, adminSessions, loginResp, failedLogins, lockSince,
                   login, answered>>

(***************************************************************************)
(* The scheduler                                                           *)
(***************************************************************************)
NumTasks == 2
MaxTriggers == 2
Structs == 1..NumTasks
TaskIDs == {"cleanup"}
Schedules == {"@hourly", "hourly?"}
\* RetryOnFail and MaxRetries of a task.
RetryPolicies == {<<FALSE, 2>>, <<TRUE, 0>>, <<TRUE, 2>>}
Nil == 0
NoTask == [ID |-> "", Schedule |-> "", Enabled |-> FALSE, RetryOnFail |-> FALSE,
           MaxRetries |-> 0, FailCount |-> 0, RunCount |-> 0, LastStatus |-> ""]
NoCall == [op |-> "", struct |-> Nil, err |-> NoError]
NoGor == [check |-> 0, invoke |-> 0, handler |-> 0, sleep |-> 0]

\* cron's parser accepts the descriptor and refuses the other string.
ParseOk(schedule) == schedule = "@hourly"

Exists_Never(id) == FALSE

\* _, exists := s.tasks[id]
Exists(id) == tasks[id] # Nil

RetryAllowed_Incl(t) == t.FailCount <= t.MaxRetries

\* task.FailCount < task.MaxRetries
RetryAllowed(t) == t.FailCount < t.MaxRetries

\* AddTask: refuses a present ID, registers an enabled task with cron and
\* returns the parser's error, stores the task last.
AddTask(o, id, schedule, enabled, retry, m) ==
    /\ task[o] = NoTask
    /\ LET err == IF Exists(id) THEN "already exists"
                  ELSE IF enabled /\ ~ParseOk(schedule) THEN "invalid schedule"
                  ELSE NoError
       IN
       /\ lastCall' = IF err = NoError THEN NoCall
                      ELSE [op |-> "AddTask", struct |-> o, err |-> err]
       /\ IF err = NoError
          THEN /\ task' = [task EXCEPT ![o] =
                     [ID |-> id, Schedule |-> schedule, Enabled |-> enabled,
                      RetryOnFail |-> retry, MaxRetries |-> m, FailCount |-> 0,
                      RunCount |-> 0, LastStatus |-> ""]]
               /\ tasks' = [tasks EXCEPT ![id] = o]
               /\ entries' = IF enabled THEN entries \cup {o} ELSE entries
          ELSE UNCHANGED <<task, tasks, entries>>
    /\ UNCHANGED <<cronRunning, gor, invocations, triggers, succeeded, switched>>

\* RemoveTask: delete(s.tasks, taskID); the cron entry is left alone.
RemoveTask(id) ==
    /\ lastCall' = NoCall
    /\ tasks' = [tasks EXCEPT ![id] = Nil]
    /\ UNCHANGED <<task, entries, cronRunning, gor, invocations, triggers,
                   succeeded, switched>>

\* RunTaskNow: go s.runTask(task).
RunTaskNow(id) ==
    /\ lastCall' = NoCall
    /\ IF Exists(id)
       THEN /\ SumOver(triggers, Structs) < MaxTriggers
            /\ gor' = [gor EXCEPT ![tasks[id]].check = @ + 1]
            /\ triggers' = [triggers EXCEPT ![tasks[id]] = @ + 1]
       ELSE UNCHANGED <<gor, triggers>>
    /\ UNCHANGED <<task, tasks, entries, cronRunning, invocations, succeeded,
                   switched>>

\* EnableTask / DisableTask: task.Enabled = value, nothing else.
SetEnabled(id, value) ==
    /\ lastCall' = NoCall
    /\ IF Exists(id)
       THEN /\ task' = [task EXCEPT ![tasks[id]].Enabled = value]
            /\ switched' = [switched EXCEPT ![tasks[id]] =
                               IF value THEN "enabled" ELSE "disabled"]
       ELSE UNCHANGED <<task, switched>>
    /\ UNCHANGED <<tasks, entries, cronRunning, gor, invocations, triggers,
                   succeeded>>

EnableTask(id) == SetEnabled(id, TRUE)

DisableTask(id) == SetEnabled(id, FALSE)

\* Start / Stop: s.cron.Start(), s.cron.Stop().
SchedStart ==
    /\ ~cronRunning
    /\ cronRunning' = TRUE
    /\ lastCall' = NoCall
    /\ UNCHANGED <<task, tasks, entries, gor, invocations, triggers, succeeded,
                   switched>>

SchedStop ==
    /\ cronRunning
    /\ cronRunning' = FALSE
    /\ lastCall' = NoCall
    /\ UNCHANGED <<task, tasks, entries, gor, invocations, triggers, succeeded,
                   switched>>

\* The time of the struct's schedule comes: cron runs the entries it holds.
Occurrence(o) ==
    /\ cronRunning
    /\ task[o] # NoTask
    /\ ParseOk(task[o].Schedule)
    /\ lastCall' = [op |-> "occurrence", struct |-> o, err |-> NoError]
    /\ IF o \in entries
       THEN /\ SumOver(triggers, Structs) < MaxTriggers
            /\ gor' = [gor EXCEPT ![o].check = @ + 1]
            /\ triggers' = [triggers EXCEPT ![o] = @ + 1]
       ELSE UNCHANGED <<gor, triggers>>
    /\ UNCHANGED <<task, tasks, entries, cronRunning, invocations, succeeded,
                   switched>>

\* runTask: if !task.Enabled { return }
RunCheck(o) ==
    /\ gor[o].check > 0
    /\ gor' = [gor EXCEPT ![o].check = @ - 1,
                          ![o].invoke = IF task[o].Enabled THEN @ + 1 ELSE @]
    /\ lastCall' = NoCall
    /\ UNCHANGED <<task, tasks, entries, cronRunning, invocations, triggers,
                   succeeded, switched>>

\* runTask: err := task.Handler(ctx) is called.
RunInvoke(o) ==
    /\ gor[o].invoke > 0
    /\ gor' = [gor EXCEPT ![o].invoke = @ - 1, ![o].handler = @ + 1]
    /\ invocations' = [invocations EXCEPT ![o] = @ + 1]
    /\ lastCall' = NoCall
    /\ UNCHANGED <<task, tasks, entries, cronRunning, triggers, succeeded,
                   switched>>

\* runTask: the handler has returned; the bookkeeping under s.mu.
RunDone(o, failed) ==
    /\ gor[o].handler > 0
    /\ LET after == IF failed
                    THEN [task[o] EXCEPT !.LastStatus = "failed",
                                         !.FailCount = @ + 1]
                    ELSE [task[o] EXCEPT !.LastStatus = "success",
                                         !.RunCount = @ + 1,
                                         !.FailCount = 0]
       IN
       /\ task' = [task EXCEPT ![o] = after]
       /\ gor' = [gor EXCEPT
                    ![o].handler = @ - 1,
                    ![o].sleep = IF failed /\ after.RetryOnFail /\ RetryAllowed(after)
                                 THEN @ + 1 ELSE @]
    /\ succeeded' = [succeeded EXCEPT ![o] = @ \/ ~failed]
    /\ lastCall' = NoCall
    /\ UNCHANGED <<tasks, entries, cronRunning, invocations, triggers, switched>>

\* retryTask: the sleep is over; runTask when FailCount < MaxRetries.
RetryWake(o) ==
    /\ gor[o].sleep > 0
    /\ gor' = [gor EXCEPT ![o].sleep = @ - 1,
                          ![o].check = IF RetryAllowed(task[o]) THEN @ + 1 ELSE @]
    /\ lastCall' = NoCall
    /\ UNCHANGED <<task, tasks, entries, cronRunning, invocations, triggers,
                   succeeded, switched>>

Init ==
    /\ ipTestCount = [a \in RemoteAddrs |-> NoEntry]
    /\ ipMutex = NoAddr
    /\ serving = [a \in RemoteAddrs |-> 0]
    /\ deferred = [a \in RemoteAddrs |-> [h \in Hows |-> 0]]
    /\ resp = NoResp
    /\ freed = [a \in RemoteAddrs |-> FALSE]
    /\ pcH = "none"
    /\ delivered = 0
    /\ failedAt = "none"
    /\ duration = 0
    /\ pcRun = "none"
    /\ progressChan = <<>>
    /\ closed = FALSE
    /\ emitted = <<>>
    /\ stored = 0
    /\ panicked = FALSE
    /\ elapsed = [p \in Phases |-> NotStarted]
    /\ totalBytes = [p \in Phases |-> 0]
    /\ worker = [p \in Phases |-> [w \in SessWorkers |-> "none"]]
    /\ ticker = [p \in Phases |-> [running |-> FALSE, tick |-> FALSE]]
    /\ sampler = [p \in Phases |-> [pc |-> "none", progress |-> 0]]
    /\ callPc = "none"
    /\ now = 0
    /\ bytes = 0
    /\ mu = NoHolder
    /\ wg = 0
    /\ wpc = [w \in Workers |-> "none"]
    /\ reg = [w \in Workers |-> 0]
    /\ tickC = [running |-> FALSE, tick |-> FALSE]
    /\ spc = "none"
    /\ currentBytes = 0
    /\ finalBytes = 0
    /\ mbps = NotReturned
    /\ iterations = [w \in Workers |-> 0]
    /\ lateIterations = [w \in Workers |-> 0]
    /\ sinceCancel = NotCancelled
    /\ bootPc = "start"
    /\ cfg = NoConfig
    /\ bootErr = NoError
    /\ svc = NoService
    /\ httpResp = NoHttp
    /\ pingPc = "none"
    /\ sampleNo = 0
    /\ pings = <<>>
    /\ successful = 0
    /\ pingResult = NoPing
    /\ speedTests = {}
    /\ sessions = 0
    /\ pendingTest = NoTest
    /\ createLog = <<>>
    /\ reqPath = NoPath
    /\ lastAdmitted = NoPath
    /\ lastPassed = NoPath
    /\ appMode = NoMode
    /\ shutPc = "serving"
    /\ storeOpen = TRUE
    /\ listening = TRUE
    /\ job = [j \in Jobs |-> NoJob]
    /\ storeCalls = [open |-> 0, closed |-> 0]
    /\ adminRow = NoRow
    /\ clock = 1
    /\ adminSessions = 0
    /\ loginResp = 0
    /\ failedLogins = 0
    /\ lockSince = NotLocked
    /\ login = [r \in Logins |-> NoLogin]
    /\ answered = NoLogin
    /\ task = [o \in Structs |-> NoTask]
    /\ tasks = [id \in TaskIDs |-> Nil]
    /\ entries = {}
    /\ cronRunning = FALSE
    /\ gor = [o \in Structs |-> NoGor]
    /\ invocations = [o \in Structs |-> 0]
    /\ triggers = [o \in Structs |-> 0]
    /\ succeeded = [o \in Structs |-> FALSE]
    /\ switched = [o \in Structs |-> ""]
    /\ lastCall = NoCall

\* The requests of all clients at the middleware, around any handler.
Next ==
    \/ \E a \in RemoteAddrs, p \in Paths : MwPass(a, p) /\ UNCHANGED <<sessVars, callVars, procVars>>
    \/ \E a \in RemoteAddrs, p \in Paths : MwLock(a, p) /\ UNCHANGED <<sessVars, callVars, procVars>>
    \/ \E a \in RemoteAddrs : MwDecide(a) /\ UNCHANGED <<sessVars, callVars, procVars>>
    \/ \E a \in RemoteAddrs, how \in Hows : ServeExit(a, how) /\ UNCHANGED <<sessVars, callVars, procVars>>
    \/ \E a \in RemoteAddrs, how \in Hows : MwRelease(a, how) /\ UNCHANGED <<sessVars, callVars, procVars>>
    \/ Tick /\ UNCHANGED <<sessVars, callVars, procVars>>

Spec == Init /\ [][Next]_vars

\* One request on /api/v1/speedtest/ws and its test.
SessionNext ==
    \/ SessArrive /\ UNCHANGED <<callVars, procVars>>
    \/ SessDecide /\ UNCHANGED <<callVars, procVars>>
    \/ SessRelease /\ UNCHANGED <<callVars, procVars>>
    \/ \E ok \in BOOLEAN : StatusUpgrade(ok, SessTicks) /\ UNCHANGED <<callVars, procVars>>
    \/ StatusReceive /\ UNCHANGED <<callVars, procVars>>
    \/ \E ok \in BOOLEAN : StatusWrite(ok) /\ UNCHANGED <<callVars, procVars>>
    \/ StatusRangeEnds /\ UNCHANGED <<callVars, procVars>>
    \/ RunSend /\ UNCHANGED <<callVars, procVars>>
    \/ RunPing /\ UNCHANGED <<callVars, procVars>>
    \/ \E p \in Phases : PhaseStart(p) /\ UNCHANGED <<callVars, procVars>>
    \/ \E p \in Phases, w \in SessWorkers : WorkerTest(p, w) /\ UNCHANGED <<callVars, procVars>>
    \/ \E p \in Phases, w \in SessWorkers : WorkerAdd(p, w) /\ UNCHANGED <<callVars, procVars>>
    \/ \E p \in Phases : PhaseWait(p) /\ UNCHANGED <<callVars, procVars>>
    \/ \E p \in Phases : SamplerTick(p) /\ UNCHANGED <<callVars, procVars>>
    \/ \E p \in Phases : SamplerCheck(p) /\ UNCHANGED <<callVars, procVars>>
    \/ \E p \in Phases : SamplerCompute(p) /\ UNCHANGED <<callVars, procVars>>
    \/ \E p \in Phases : SamplerSend(p) /\ UNCHANGED <<callVars, procVars>>
    \/ ClockTick /\ UNCHANGED <<callVars, procVars>>
    \/ StoreResult /\ UNCHANGED <<callVars, procVars>>
    \/ FinalSend /\ UNCHANGED <<callVars, procVars>>
    \/ CloseChan /\ UNCHANGED <<callVars, procVars>>

SpecSession == Init /\ [][SessionNext]_vars

\* One request on /api/v1/speedtest/ws whose client has left: every write to
\* the WebSocket fails.
GoneNext ==
    \/ SessArrive /\ UNCHANGED <<callVars, procVars>>
    \/ SessDecide /\ UNCHANGED <<callVars, procVars>>
    \/ SessRelease /\ UNCHANGED <<callVars, procVars>>
    \/ StatusUpgrade(TRUE, GoneTicks) /\ UNCHANGED <<callVars, procVars>>
    \/ StatusReceive /\ UNCHANGED <<callVars, procVars>>
    \/ StatusWrite(FALSE) /\ UNCHANGED <<callVars, procVars>>
    \/ RunSend /\ UNCHANGED <<callVars, procVars>>
    \/ RunPing /\ UNCHANGED <<callVars, procVars>>
    \/ \E p \in Phases : PhaseStart(p) /\ UNCHANGED <<callVars, procVars>>
    \/ \E p \in Phases, w \in SessWorkers : WorkerTest(p, w) /\ UNCHANGED <<callVars, procVars>>
    \/ \E p \in Phases, w \in SessWorkers : WorkerAdd(p, w) /\ UNCHANGED <<callVars, procVars>>
    \/ \E p \in Phases : PhaseWait(p) /\ UNCHANGED <<callVars, procVars>>
    \/ \E p \in Phases : SamplerTick(p) /\ UNCHANGED <<callVars, procVars>>
    \/ \E p \in Phases : SamplerCheck(p) /\ UNCHANGED <<callVars, procVars>>
    \/ \E p \in Phases : SamplerCompute(p) /\ UNCHANGED <<callVars, procVars>>
    \/ \E p \in Phases : SamplerSend(p) /\ UNCHANGED <<callVars, procVars>>
    \/ ClockTick /\ UNCHANGED <<callVars, procVars>>
    \/ StoreResult /\ UNCHANGED <<callVars, procVars>>
    \/ FinalSend /\ UNCHANGED <<callVars, procVars>>
    \/ CloseChan /\ UNCHANGED <<callVars, procVars>>

SpecGone == Init /\ [][GoneNext]_vars

\* One call of testDownload / testUpload.
PhaseNext ==
    \/ CallStart /\ UNCHANGED <<admVars, sessVars, procVars>>
    \/ \E w \in Workers : WLoop(w) /\ UNCHANGED <<admVars, sessVars, procVars>>
    \/ \E w \in Workers : WLock(w) /\ UNCHANGED <<admVars, sessVars, procVars>>
    \/ \E w \in Workers : WLoad(w) /\ UNCHANGED <<admVars, sessVars, procVars>>
    \/ \E w \in Workers : WStore(w) /\ UNCHANGED <<admVars, sessVars, procVars>>
    \/ \E w \in Workers : WUnlock(w) /\ UNCHANGED <<admVars, sessVars, procVars>>
    \/ STick /\ UNCHANGED <<admVars, sessVars, procVars>>
    \/ SCheck /\ UNCHANGED <<admVars, sessVars, procVars>>
    \/ SLock /\ UNCHANGED <<admVars, sessVars, procVars>>
    \/ SLoad /\ UNCHANGED <<admVars, sessVars, procVars>>
    \/ SUnlock /\ UNCHANGED <<admVars, sessVars, procVars>>
    \/ SSend /\ UNCHANGED <<admVars, sessVars, procVars>>
    \/ CallReturn /\ UNCHANGED <<admVars, sessVars, procVars>>
    \/ Disconnect /\ UNCHANGED <<admVars, sessVars, procVars>>
    \/ ClockAdvance /\ UNCHANGED <<admVars, sessVars, procVars>>

SpecPhase == Init /\ [][PhaseNext]_vars

\* The start of the process and its health routes.
BootNext ==
    \/ \E c \in ConfigFiles : BootLoad(c) /\ UNCHANGED <<admVars, sessVars, callVars, pingVars, storeVars, followVars, shutVars, loginVars, schedVars>>
    \/ BootLoadFails /\ UNCHANGED <<admVars, sessVars, callVars, pingVars, storeVars, followVars, shutVars, loginVars, schedVars>>
    \/ \E m \in ModeFlags : BootValidate(m) /\ UNCHANGED <<admVars, sessVars, callVars, pingVars, storeVars, followVars, shutVars, loginVars, schedVars>>
    \/ \E ok \in BOOLEAN, listen \in BOOLEAN : BootNew(ok, listen) /\ UNCHANGED <<admVars, sessVars, callVars, pingVars, storeVars, followVars, shutVars, loginVars, schedVars>>
    \/ \E p \in GetPaths : HealthGet(p) /\ UNCHANGED <<admVars, sessVars, callVars, pingVars, storeVars, followVars, shutVars, loginVars, schedVars>>

SpecBoot == Init /\ [][BootNext]_vars

\* One call of testPing.
PingNext ==
    \/ PingStart /\ UNCHANGED <<admVars, sessVars, callVars, bootVars, storeVars, followVars, shutVars, loginVars, schedVars>>
    \/ \E e \in ElapsedMs : PingSample(e) /\ UNCHANGED <<admVars, sessVars, callVars, bootVars, storeVars, followVars, shutVars, loginVars, schedVars>>
    \/ PingReturn /\ UNCHANGED <<admVars, sessVars, callVars, bootVars, storeVars, followVars, shutVars, loginVars, schedVars>>

SpecPing == Init /\ [][PingNext]_vars

\* Completed sessions and the store.
StoreNext ==
    \/ \E share \in BOOLEAN, code \in ShareCodes : StoreBuild(share, code) /\ UNCHANGED <<admVars, sessVars, callVars, bootVars, pingVars, followVars, shutVars, loginVars, schedVars>>
    \/ \E cancelled \in BOOLEAN : StoreCreate(cancelled) /\ UNCHANGED <<admVars, sessVars, callVars, bootVars, pingVars, followVars, shutVars, loginVars, schedVars>>
    \/ \E id \in 1..MaxSessions, code \in ShareCodes \cup {EmptyCode} : StoreUpdate(id, code) /\ UNCHANGED <<admVars, sessVars, callVars, bootVars, pingVars, followVars, shutVars, loginVars, schedVars>>
    \/ \E id \in 1..MaxSessions : StoreDelete(id) /\ UNCHANGED <<admVars, sessVars, callVars, bootVars, pingVars, followVars, shutVars, loginVars, schedVars>>

SpecStore == Init /\ [][StoreNext]_vars

\* The requests of one client of a server started in either mode.
FollowNext ==
    \/ \E m \in Modes : FollowNew(m) /\ UNCHANGED <<sessVars, callVars, bootVars, pingVars, storeVars, shutVars, loginVars, schedVars>>
    \/ \E p \in Paths : FollowPass(p) /\ UNCHANGED <<sessVars, callVars, bootVars, pingVars, storeVars, shutVars, loginVars, schedVars>>
    \/ \E p \in Paths : FollowLock(p) /\ UNCHANGED <<sessVars, callVars, bootVars, pingVars, storeVars, shutVars, loginVars, schedVars>>
    \/ FollowDecide /\ UNCHANGED <<sessVars, callVars, bootVars, pingVars, storeVars, shutVars, loginVars, schedVars>>
    \/ \E how \in Hows : FollowExit(how) /\ UNCHANGED <<sessVars, callVars, bootVars, pingVars, storeVars, shutVars, loginVars, schedVars>>
    \/ \E how \in Hows : FollowRelease(how) /\ UNCHANGED <<sessVars, callVars, bootVars, pingVars, storeVars, shutVars, loginVars, schedVars>>
    \/ FollowTick /\ UNCHANGED <<sessVars, callVars, bootVars, pingVars, storeVars, shutVars, loginVars, schedVars>>

SpecFollow == Init /\ [][FollowNext]_vars

\* A server with work in flight that is told to stop.
ShutdownNext ==
    \/ \E j \in Jobs, k \in JobKinds : ShutAccept(j, k) /\ UNCHANGED <<admVars, sessVars, callVars, bootVars, pingVars, storeVars, followVars, loginVars, schedVars>>
    \/ \E j \in Jobs : ShutStoreCall(j) /\ UNCHANGED <<admVars, sessVars, callVars, bootVars, pingVars, storeVars, followVars, loginVars, schedVars>>
    \/ \E j \in Jobs : ShutFinish(j) /\ UNCHANGED <<admVars, sessVars, callVars, bootVars, pingVars, storeVars, followVars, loginVars, schedVars>>
    \/ ShutdownClose /\ UNCHANGED <<admVars, sessVars, callVars, bootVars, pingVars, storeVars, followVars, loginVars, schedVars>>
    \/ ShutdownListeners /\ UNCHANGED <<admVars, sessVars, callVars, bootVars, pingVars, storeVars, followVars, loginVars, schedVars>>
    \/ \E t \in BOOLEAN : ShutdownReturn(t) /\ UNCHANGED <<admVars, sessVars, callVars, bootVars, pingVars, storeVars, followVars, loginVars, schedVars>>

SpecShutdown == Init /\ [][ShutdownNext]_vars

\* The login attempts on one admin account.
LoginNext ==
    \/ CreateAdmin /\ UNCHANGED <<admVars, sessVars, callVars, bootVars, pingVars, storeVars, followVars, shutVars, schedVars>>
    \/ \E r \in Logins, pwOk \in BOOLEAN : LoginPost(r, pwOk) /\ UNCHANGED <<admVars, sessVars, callVars, bootVars, pingVars, storeVars, followVars, shutVars, schedVars>>
    \/ \E r \in Logins, ok \in BOOLEAN : Login(r, ok) /\ UNCHANGED <<admVars, sessVars, callVars, bootVars, pingVars, storeVars, followVars, shutVars, schedVars>>
    \/ \E cookie \in BOOLEAN : Logout(cookie) /\ UNCHANGED <<admVars, sessVars, callVars, bootVars, pingVars, storeVars, followVars, shutVars, schedVars>>
    \/ LoginTick /\ UNCHANGED <<admVars, sessVars, callVars, bootVars, pingVars, storeVars, followVars, shutVars, schedVars>>

SpecLogin == Init /\ [][LoginNext]_vars

\* The scheduler, its callers, cron and the goroutines it starts.
SchedulerNext ==
    \/ \E o \in Structs, id \in TaskIDs, sch \in Schedules, en \in BOOLEAN, re \in RetryPolicies : AddTask(o, id, sch, en, re[1], re[2]) /\ UNCHANGED <<admVars, sessVars, callVars, bootVars, pingVars, storeVars, followVars, shutVars, loginVars>>
    \/ \E id \in TaskIDs : RemoveTask(id) /\ UNCHANGED <<admVars, sessVars, callVars, bootVars, pingVars, storeVars, followVars, shutVars, loginVars>>
    \/ \E id \in TaskIDs : RunTaskNow(id) /\ UNCHANGED <<admVars, sessVars, callVars, bootVars, pingVars, storeVars, followVars, shutVars, loginVars>>
    \/ \E id \in TaskIDs : EnableTask(id) /\ UNCHANGED <<admVars, sessVars, callVars, bootVars, pingVars, storeVars, followVars, shutVars, loginVars>>
    \/ \E id \in TaskIDs : DisableTask(id) /\ UNCHANGED <<admVars, sessVars, callVars, bootVars, pingVars, storeVars, followVars, shutVars, loginVars>>
    \/ SchedStart /\ UNCHANGED <<admVars, sessVars, callVars, bootVars, pingVars, storeVars, followVars, shutVars, loginVars>>
    \/ SchedStop /\ UNCHANGED <<admVars, sessVars, callVars, bootVars, pingVars, storeVars, followVars, shutVars, loginVars>>
    \/ \E o \in Structs : Occurrence(o) /\ UNCHANGED <<admVars, sessVars, callVars, bootVars, pingVars, storeVars, followVars, shutVars, loginVars>>
    \/ \E o \in Structs : RunCheck(o) /\ UNCHANGED <<admVars, sessVars, callVars, bootVars, pingVars, storeVars, followVars, shutVars, loginVars>>
    \/ \E o \in Structs : RunInvoke(o) /\ UNCHANGED <<admVars, sessVars, callVars, bootVars, pingVars, storeVars, followVars, shutVars, loginVars>>
    \/ \E o \in Structs, failed \in BOOLEAN : RunDone(o, failed) /\ UNCHANGED <<admVars, sessVars, callVars, bootVars, pingVars, storeVars, followVars, shutVars, loginVars>>
    \/ \E o \in Structs : RetryWake(o) /\ UNCHANGED <<admVars, sessVars, callVars, bootVars, pingVars, storeVars, followVars, shutVars, loginVars>>

SpecScheduler == Init /\ [][SchedulerNext]_vars

(***************************************************************************)
(* Properties of the admission control (Spec).                             *)
(***************************************************************************)
Entries == {a \in RemoteAddrs : ipTestCount[a] # NoEntry}

\* The step in which the admission attempt of a request of addr is decided.
Decided(addr) == ipMutex = addr /\ ipMutex' = NoAddr
Admitted(addr) ==
    /\ serving'[addr] = serving[addr] + 1
    /\ ipTestCount'[addr] =
          [activeTests |-> ipTestCount[addr].activeTests + 1, sinceLastTest |-> 0]
    /\ resp' = NoResp
Rejected(addr, body) ==
    /\ resp'.addr = addr /\ resp'.status = 429 /\ resp'.body = body
    /\ UNCHANGED <<ipTestCount, serving, deferred>>

\* C1: for every client key, 0 <= activeTests <= MaxConcurrent in every
\* reachable state, under any interleaving of admission attempts and releases.
C1_ActiveTestsBounded ==
    \A a \in Entries :
        /\ 0 <= ipTestCount[a].activeTests
        /\ ipTestCount[a].activeTests <= MaxConcurrent

\* A client at its ceiling with a further attempt holding the mutex and a
\* release pending at the same time.
C1_Witness ==
    \E a \in RemoteAddrs :
        /\ ipTestCount[a].activeTests = MaxConcurrent
        /\ ipMutex = a
        /\ Deferred(a) > 0

\* C6: every admitted request releases its slot exactly once, on every exit
\* path: activeTests of a client is the number of its admitted requests whose
\* release has not run yet, so it is 0 when none is in flight.
C6_ReleasedExactlyOnce ==
    \A a \in RemoteAddrs :
        IF a \in Entries
        THEN ipTestCount[a].activeTests = serving[a] + Deferred(a)
        ELSE serving[a] + Deferred(a) = 0

\* A request that panicked has just run its release and its client is back
\* to no active test.
C6_Witness ==
    /\ resp.status = 500
    /\ ipTestCount[resp.addr].activeTests = 0
    /\ serving[resp.addr] + Deferred(resp.addr) = 0

\* C8 as stated: an attempt fewer than MinInterval seconds after the client's
\* last admission is refused with "interval too short"; an attempt at least
\* MinInterval seconds after it, below the ceiling, is admitted.
C8_Original ==
    [][\A a \in RemoteAddrs : Decided(a) =>
          /\ ipTestCount[a].sinceLastTest < MinInterval * UnitsPerSecond
                => Rejected(a, "Test interval too short")
          /\ ( /\ ipTestCount[a].sinceLastTest >= MinInterval * UnitsPerSecond
               /\ ipTestCount[a].activeTests < MaxConcurrent )
                => Admitted(a)
      ]_vars

\* C8 as amended: an attempt fewer than MinInterval seconds after the client's
\* last admission is refused, with "interval too short" when the client is
\* below its ceiling and with "too many concurrent tests" when it is at the
\* ceiling (the ceiling is checked first); an attempt at least MinInterval
\* seconds after it, below the ceiling, is admitted.
C8_IntervalEnforced ==
    [][\A a \in RemoteAddrs : Decided(a) =>
          /\ ipTestCount[a].sinceLastTest < MinInterval * UnitsPerSecond
                => IF ipTestCount[a].activeTests < MaxConcurrent
                   THEN Rejected(a, "Test interval too short")
                   ELSE Rejected(a, "Too many concurrent tests")
          /\ ( /\ ipTestCount[a].sinceLastTest >= MinInterval * UnitsPerSecond
               /\ ipTestCount[a].activeTests < MaxConcurrent )
                => Admitted(a)
      ]_vars

\* An attempt 2 seconds after the client's last admission has just been
\* refused with "interval too short".
C8_Witness ==
    /\ resp.body = "Test interval too short"
    /\ ipTestCount[resp.addr].sinceLastTest = 2 * UnitsPerSecond
    /\ ipTestCount[resp.addr].activeTests < MaxConcurrent

\* C9 as stated: an attempt of a client with MaxConcurrent active tests is
\* rejected with "too many concurrent tests", and the first attempt after a
\* release that took the client off its ceiling is admitted.
C9_Original ==
    [][\A a \in RemoteAddrs : Decided(a) =>
          /\ ipTestCount[a].activeTests = MaxConcurrent
                => Rejected(a, "Too many concurrent tests")
          /\ freed[a] => Admitted(a)
      ]_vars

\* C9 as amended: the first attempt after such a release is admitted when at
\* least MinInterval seconds have passed since the client's last admission,
\* and is rejected with "interval too short" otherwise.
C9_CeilingThenRelease ==
    [][\A a \in RemoteAddrs : Decided(a) =>
          /\ ipTestCount[a].activeTests = MaxConcurrent
                => Rejected(a, "Too many concurrent tests")
          /\ freed[a] =>
                IF ipTestCount[a].sinceLastTest >= MinInterval * UnitsPerSecond
                THEN Admitted(a)
                ELSE Rejected(a, "Test interval too short")
      ]_vars

\* Three tests were active, one was released, and the client's next attempt,
\* made MinInterval seconds or more after its last admission, is being decided.
C9_Witness ==
    \E a \in RemoteAddrs :
        /\ freed[a]
        /\ ipMutex = a
        /\ ipTestCount[a].activeTests = MaxConcurrent - 1
        /\ ipTestCount[a].sinceLastTest >= MinInterval * UnitsPerSecond

(***************************************************************************)
(* Properties of a session (SpecSession).                                  *)
(***************************************************************************)
\* The place of a stage in the order ping, download, upload, complete.
Rank == [ping |-> 1, download |-> 2, upload |-> 3, complete |-> 4]

Sent == 1..Len(emitted)

\* C2: the updates placed on the progress channel are in stage order: no
\* update of an earlier stage is emitted after an update of a later stage,
\* under any interleaving of RunTest and the samplers.
C2_StageOrder ==
    \A i, j \in Sent :
        i < j => Rank[emitted[i].stage] <= Rank[emitted[j].stage]

\* C3: when the channel is closed, exactly one of the updates sent on it by
\* RunTest and by TestStatus has stage "complete", and it is the last one.
C3_OneComplete ==
    closed =>
        /\ Cardinality({i \in Sent : emitted[i].stage = "complete"}) = 1
        /\ emitted[Len(emitted)].stage = "complete"

\* C4: once TestStatus has returned and reads no more, RunTest is not wedged:
\* it is never at a send with the buffer full (where nothing can end its wait
\* and it cannot return).
C4_RunTestNotWedged ==
    ~ ( /\ pcH = "returned"
        /\ pcRun \in DOMAIN SendOf
        /\ ~HasRoom )

\* C5: when the WebSocket write failed during the download phase (while
\* testDownload was running), no upload worker is ever started and
\* CreateSpeedTest is never called.
C5_CancelStopsTest ==
    failedAt = "testDownload" =>
        /\ \A w \in SessWorkers : worker["upload"][w] = "none"
        /\ stored = 0

\* C7: while the test run of the session still executes, or its result has
\* not been handed to the store yet, the client holds a slot: activeTests of
\* its key is at least 1.
C7_SlotHeldWhileRunning ==
    pcRun \notin {"none", "final", "close", "done"} =>
        /\ ipTestCount[SessAddr] # NoEntry
        /\ ipTestCount[SessAddr].activeTests >= 1

\* C10: in a session that ran to the close of the channel, the progress
\* values of each stage's updates, in the order they were emitted, never
\* decrease and end with 1.0.
C10_ProgressMonotone ==
    closed =>
        \A i \in Sent :
            /\ \A j \in Sent :
                  (i < j /\ emitted[i].stage = emitted[j].stage)
                      => emitted[i].progress <= emitted[j].progress
            /\ (\A j \in Sent : j > i => emitted[j].stage # emitted[i].stage)
                  => emitted[i].progress = One

\* C11: phases never overlap. Whenever an upload worker has started or an
\* upload-stage update has been sent, every download worker has terminated
\* and the download update with progress 1.0 was sent before (before the
\* first upload-stage update, where there is one).
C11_PhasesDoNotOverlap ==
    /\ (\E w \in SessWorkers : worker["upload"][w] # "none") =>
          /\ \A w \in SessWorkers : worker["download"][w] = "done"
          /\ \E i \in Sent : emitted[i] = SendOf["dl1"]
    /\ \A j \in Sent : emitted[j].stage = "upload" =>
          /\ \A w \in SessWorkers : worker["download"][w] = "done"
          /\ \E i \in 1..(j - 1) : emitted[i] = SendOf["dl1"]

\* An upload worker has added its first chunk while the sampler of the
\* download phase is still about to send.
C11_Witness ==
    /\ \E w \in SessWorkers : worker["upload"][w] = "sleep"
    /\ sampler["download"].pc = "send"
    /\ \E j \in Sent : emitted[j].stage = "upload"

\* The client of the session keeps reading: the upgrade succeeded and no
\* write has failed.
ClientReads == pcRun # "none" /\ failedAt = "none"

\* Every update sent, a "complete" among them, was written to the client
\* and the channel is closed.
Completed ==
    /\ closed
    /\ delivered = Len(emitted)
    /\ \E i \in Sent : emitted[i].stage = "complete"

\* C12: a session whose client keeps reading does not come to a stop before
\* a "complete" update was delivered and the channel closed: in every state
\* reached before that, a further step of the session is possible.
C12_EndsObservably ==
    ClientReads => (Completed \/ ENABLED SessionNext)

\* C14: the byte counter of a phase is 0 when the phase starts, never
\* decreases while the phase lasts, and grows only in a step of a worker of
\* that phase (a step in which that worker completes an iteration and no
\* worker of the other phase moves).
C14_CounterPerPhase ==
    [][\A p \in Phases :
          /\ (pcRun = WaitPc[p] /\ pcRun' = WaitPc[p])
                => totalBytes'[p] >= totalBytes[p]
          /\ (pcRun = StartPc[p] /\ pcRun' = WaitPc[p]) => totalBytes'[p] = 0
          /\ totalBytes'[p] > totalBytes[p] =>
                /\ pcRun = WaitPc[p]
                /\ \E w \in SessWorkers :
                      worker[p][w] = "add" /\ worker'[p][w] = "sleep"
                /\ \A q \in Phases \ {p} : worker'[q] = worker[q]
      ]_vars

\* The download call has returned and, in the upload phase, every upload
\* worker has added to the counter of that phase in every ticker period.
C14_Witness ==
    /\ pcRun = "ulWait"
    /\ totalBytes["upload"] = SessThreads * SessTicks
    /\ \E w \in SessWorkers : worker["upload"][w] = "sleep"

(***************************************************************************)
(* Properties of a call of testDownload / testUpload (SpecPhase).          *)
(***************************************************************************)
\* C13: after the client has left during a transfer phase, the workers of
\* the phase stop adding to the byte counter within one ticker period: no
\* worker begins a further iteration of its loop once two periods have begun
\* since the client left.
C13_WorkersStopOnCancel ==
    [][\A w \in Workers :
          (wpc[w] = "loop" /\ wpc'[w] = "lock") => sinceCancel < 2
      ]_vars

\* Goroutine g is between its mu.Lock() and its mu.Unlock().
InCritical(g) ==
    IF g = TheSampler THEN spc \in {"load", "unlock"}
    ELSE wpc[g] \in {"load", "store", "unlock"}

Completed_Additions == SumOver(iterations, Workers)

\* C15: the byte counter loses no update. At most one goroutine is between
\* Lock and Unlock, so no read of the counter falls between the load and the
\* store of an addition; totalBytes is the number of additions completed by
\* all workers (in chunks); the value the sampler read is a number of
\* additions completed by then; and so is the value of the final computation.
C15_NoLostUpdate ==
    /\ Cardinality({g \in Workers \cup {TheSampler} : InCritical(g)}) <= 1
    /\ \A g \in Workers \cup {TheSampler} : InCritical(g) => mu = g
    /\ bytes = Completed_Additions
    /\ currentBytes <= Completed_Additions
    /\ callPc = "returned" => finalBytes = Completed_Additions

\* The call has returned after every worker completed every iteration the
\* duration allows, and the sampler had read the counter in between.
C15_Witness ==
    /\ callPc = "returned"
    /\ \A w \in Workers : iterations[w] = PhaseTicks
    /\ currentBytes > 0 /\ currentBytes < bytes

\* C16: a transfer phase terminates. A worker completes at most one addition
\* after the end time; the call returns only when every worker has ended,
\* with the throughput computed from the counter as the last addition left
\* it; and until the call has returned a further step is always possible.
C16_PhaseTerminates ==
    /\ \A w \in Workers : lateIterations[w] <= 1
    /\ callPc = "returned" =>
          /\ \A w \in Workers : wpc[w] = "done"
          /\ finalBytes = bytes
    /\ callPc = "returned" \/ ENABLED PhaseNext

\* The call has returned and a worker had completed an iteration after the
\* end time.
C16_Witness ==
    /\ callPc = "returned"
    /\ \E w \in Workers : lateIterations[w] = 1

(***************************************************************************)
(* More properties of the admission (Spec).                                *)
(***************************************************************************)
\* The client IP address of a remote address: its host part.
IpOf ==
    ("10.0.0.1:40000" :> "10.0.0.1") @@ ("10.0.0.1:40001" :> "10.0.0.1")

ClientIPs == {IpOf[a] : a \in RemoteAddrs}

\* The tests of a client IP that are admitted and running, over all of its
\* connections.
RunningOf(ip) == SumOver(serving, {a \in RemoteAddrs : IpOf[a] = ip})

\* C17: for any single client IP address, over all of its connections, the
\* number of concurrently admitted tests never exceeds MaxConcurrent.
C17_CeilingPerClientIP ==
    \A ip \in ClientIPs : RunningOf(ip) <= MaxConcurrent

\* C18: a rejected attempt is answered before any session work begins. The
\* step that decides an attempt answers 429 exactly when the client is at its
\* ceiling or too soon after its last admission; that step leaves activeTests
\* and lastTest of every client as they were and starts no handler (so there
\* is nothing to release); and the text of the answer tells the reason: the
\* ceiling text exactly when the client is at its ceiling, the interval text
\* exactly when it is below the ceiling and too soon.
C18_RejectedBeforeAnyWork ==
    [][\A a \in RemoteAddrs : Decided(a) =>
          LET limit == ipTestCount[a]
              ceiling == limit.activeTests >= MaxConcurrent
              soon == limit.sinceLastTest < MinInterval * UnitsPerSecond
          IN  /\ resp'.status = 429 <=> (ceiling \/ soon)
              /\ resp'.status = 429 =>
                    /\ resp'.addr = a
                    /\ UNCHANGED <<ipTestCount, serving, deferred>>
                    /\ resp'.body = "Too many concurrent tests" <=> ceiling
                    /\ resp'.body = "Test interval too short" <=>
                          (~ceiling /\ soon)
      ]_vars

\* A client at its ceiling, whose last admission is also less than
\* MinInterval seconds ago, has just been answered with the ceiling text while
\* its three tests run on.
C18_Witness ==
    /\ resp.status = 429
    /\ resp.body = "Too many concurrent tests"
    /\ ipTestCount[resp.addr].activeTests = MaxConcurrent
    /\ ipTestCount[resp.addr].sinceLastTest < MinInterval * UnitsPerSecond
    /\ serving[resp.addr] = MaxConcurrent

\* C19: the Retry-After value of an interval rejection is never smaller than
\* MinInterval minus the elapsed time, so that a client that waits that many
\* seconds is no longer too soon.
C19_RetryAfterSuffices ==
    [][\A a \in RemoteAddrs :
          (Decided(a) /\ resp'.body = "Test interval too short") =>
             resp'.retryAfter * UnitsPerSecond
                >= MinInterval * UnitsPerSecond - ipTestCount[a].sinceLastTest
      ]_vars

(***************************************************************************)
(* More properties of a session (SpecSession).                             *)
(***************************************************************************)
\* RunTest has returned and the goroutine is past h.store.CreateSpeedTest.
PastStore == pcRun \in {"final", "close", "done"}

\* C20: exactly one result record is handed to the store for a session whose
\* test run completed, and none for a session whose run did not: the number
\* of CreateSpeedTest calls is 0 or 1; it is 1 only when RunTest has sent its
\* last update and returned; it is 1 in every state after the step that
\* follows the return of RunTest; and that step is always possible.
C20_OneRecordPerCompletedRun ==
    /\ stored \in {0, 1}
    /\ stored = 1 =>
          /\ PastStore
          /\ \E i \in Sent : emitted[i] = SendOf["complete"]
    /\ PastStore => stored = 1
    /\ pcRun = "store" => ENABLED StoreResult

\* The run completed, its record was stored, the channel is closed and the
\* client received every update.
C20_Witness ==
    /\ pcRun = "done"
    /\ stored = 1
    /\ closed
    /\ delivered = Len(emitted)

(***************************************************************************)
(* Properties of the start of the process (SpecBoot).                      *)
(***************************************************************************)
\* The worker count and the chunk size of configuration c are those a test
\* may run with.
SizesInRange(c) ==
    /\ 1 <= c.maxThreads /\ c.maxThreads <= 16
    /\ 65536 <= c.chunkSize /\ c.chunkSize <= 10485760

\* C21: no test session runs with a worker count outside 1..16 or a chunk
\* size outside 65536..10485760: main goes past Validate only with a
\* configuration within these ranges, a configuration outside them makes main
\* exit with the error of Validate, and the service of the server has exactly
\* the configured values (nothing is clamped).
C21_SizesValidated ==
    /\ bootPc \in {"validated", "serving"} => SizesInRange(cfg)
    /\ (bootPc \notin {"start", "loaded"} /\ cfg # NoConfig /\ ~SizesInRange(cfg)) =>
          /\ bootPc = "exited"
          /\ bootErr # NoError
          /\ bootErr # "Server initialization error"
    /\ bootPc = "serving" => svc # NoService
    /\ svc # NoService =>
          /\ svc = [maxThreads |-> cfg.maxThreads, chunkSize |-> cfg.chunkSize]
          /\ SizesInRange(svc)
          /\ bootPc = "serving" \/ bootErr = "Server error"

\* A configuration that is valid but for its 17 workers has made main exit
\* with the error of the worker count.
C21_Witness ==
    /\ bootPc = "exited"
    /\ cfg.maxThreads = 17
    /\ cfg.chunkSize = 65536
    /\ bootErr = "test.max_threads must be between 1 and 16"

\* C26: after the server has started, a GET on /health is answered with a
\* JSON body whose "status" is "ok".
C26_HealthAnswersOk ==
    httpResp.path = "/health" =>
        /\ httpResp.code = 200
        /\ httpResp.status = "ok"

(***************************************************************************)
(* Properties of testPing (SpecPing).                                      *)
(***************************************************************************)
\* C22: when none of the samples succeeds, testPing returns exactly mean 0,
\* jitter 0, loss 100, as an ordinary result.
C22_NoSuccessResult ==
    (pingPc = "returned" /\ successful = 0) =>
        pingResult = [avgMs |-> 0, jitterMs |-> 0, packetLoss |-> 100]

\* The call has returned after ten failed samples.
C22_Witness ==
    /\ pingPc = "returned"
    /\ sampleNo = 10
    /\ pings = <<>>
    /\ pingResult.packetLoss = 100

\* C23: for every outcome of the 10 samples, successful is the number of the
\* samples that succeeded, and the returned packetLoss is
\* (10 - successful) / 10 * 100, which lies in 0..100.
C23_PacketLoss ==
    /\ successful = Len(pings) /\ successful <= sampleNo
    /\ pingPc = "returned" =>
          /\ pingResult.packetLoss * 10 = (10 - successful) * 100
          /\ 0 <= pingResult.packetLoss /\ pingResult.packetLoss <= 100

\* The call has returned with three of the ten samples succeeding.
C23_Witness ==
    /\ pingPc = "returned"
    /\ successful = 3
    /\ pingResult.packetLoss = 70

\* C24: mean and jitter are computed over the successful samples only, the
\* jitter being the population standard deviation (the root of the sum of
\* the squared deviations divided by the number n of successes): the mean
\* is the sum over n in thousandths rounded down, and the jitter j, in
\* thousandths, is within half a thousandth of that root, which is to say
\* (2j - 1) * n <= 2000 * root of (n * sum of p^2 - (sum of p)^2)
\* < (2j + 1) * n. When all the samples succeed the loss is 0. Over the
\* successes 10, 12, 8, 10 the mean is 10, the variance 2 and the jitter
\* 1.414. (testPing takes Samples = 10 samples in every call, so a call of
\* exactly four samples, all succeeding, does not exist: the loss of 0 is
\* stated for the calls in which all ten succeed.)
C24_MeanAndJitter ==
    /\ (pingPc = "returned" /\ successful > 0) =>
          LET n == Len(pings)
              j == pingResult.jitterMs
              vn == n * SumSquares(pings) - SumSeq(pings) * SumSeq(pings)
              lo == (2 * j - 1) * n
              hi == (2 * j + 1) * n
          IN  /\ n = successful
              /\ pingResult.avgMs = (SumSeq(pings) * 1000) \div n
              /\ j >= 0
              /\ j = 0 \/ lo * lo <= 4 * 1000000 * vn
              /\ 4 * 1000000 * vn < hi * hi
    /\ (pingPc = "returned" /\ successful = Samples) =>
          pingResult.packetLoss = 0
    /\ (pingPc = "returned" /\ pings = <<10, 12, 8, 10>>) =>
          /\ pingResult.avgMs = 10000
          /\ VarianceTimesN(pings) = 2 * 4 * 4
          /\ pingResult.jitterMs = 1414

\* The call has returned with all ten samples succeeding, the values 10, 12,
\* 8, 10 among them: mean 10, variance 1.6 (jitter 1.265), loss 0.
C24_Witness ==
    /\ pingPc = "returned"
    /\ successful = Samples
    /\ pings = <<10, 12, 8, 10, 10, 12, 8, 10, 10, 10>>
    /\ pingResult.avgMs = 10000
    /\ pingResult.jitterMs = 1265
    /\ pingResult.packetLoss = 0

(***************************************************************************)
(* More properties of a call of testDownload / testUpload (SpecPhase).     *)
(***************************************************************************)
\* The bits of n chunks of 1 MiB, times the ticker periods of a second.
BitsOf(n) == n * 1048576 * 8 * TicksPerSecond

\* C25 as stated: a phase in which the workers complete N iterations in total
\* returns N * 1048576 * 8 divided by the configured duration.
C25_Original ==
    callPc = "returned" =>
        mbps = BitsOf(Completed_Additions) \div PhaseTicks

\* C25: a phase in which the workers complete N iterations in total returns
\* N * 1048576 * 8 divided by the time measured from the start of the call
\* to the return of wg.Wait(), which is at least the configured duration: the
\* result is at most the one over the configured duration.
C25_ThroughputOverElapsed ==
    [][(callPc = "wait" /\ callPc' = "returned") =>
          /\ now >= PhaseTicks
          /\ mbps' = BitsOf(Completed_Additions) \div now
          /\ mbps' <= BitsOf(Completed_Additions) \div PhaseTicks
      ]_vars

\* The call has returned, one ticker period after its end time, with every
\* worker having completed one iteration per period of the duration.
C25_Witness ==
    /\ callPc = "returned"
    /\ finalBytes = NumThreads * PhaseTicks
    /\ mbps = BitsOf(finalBytes) \div (PhaseTicks + 1)

\* A step of the sampler goroutine of the call.
SamplerStep == STick \/ SCheck \/ SLock \/ SLoad \/ SUnlock \/ SSend

\* C30: the sampler of a transfer phase terminates: once the call has
\* returned and stopped its ticker, the sampler has exited or can take a
\* further step (it is never left blocked on the channel of the stopped
\* ticker).
C30_SamplerExits ==
    callPc = "returned" => (spc = "exit" \/ ENABLED SamplerStep)

(***************************************************************************)
(* More properties of a session (SpecSession), continued.                  *)
(***************************************************************************)
\* C27: no goroutine sends on the progress channel after it has been closed:
\* in the step that executes close(progressChan) no sampler is past its
\* deadline check and before its send, and no send ever panics.
C27_NoSendAfterClose ==
    [][/\ (~closed /\ closed') =>
              \A p \in Phases : sampler[p].pc \notin {"compute", "send"}
       /\ ~panicked'
      ]_vars

(***************************************************************************)
(* Properties of the store (SpecStore).                                    *)
(***************************************************************************)
\* C28: the record of every completed session with share=false is stored:
\* its CreateSpeedTest call, made with a live request context, succeeds and
\* leaves a row with its id in the table.
C28_UnsharedStored ==
    [][Len(createLog') > Len(createLog) =>
          LET call == createLog'[Len(createLog')] IN
          (call.shareCode = EmptyCode /\ call.err # "context canceled") =>
              /\ call.err = NoError
              /\ \E row \in speedTests' : row.id = call.id
      ]_vars

(***************************************************************************)
(* Properties of a client that starts and follows tests (SpecFollow).      *)
(***************************************************************************)
\* C29: a client whose last admitted request was POST /api/v1/speedtest/start
\* and that then opens GET /api/v1/speedtest/ws within MinInterval seconds,
\* with no test of its own active, is admitted on the WebSocket request.
C29_FollowAdmitted ==
    [][(/\ Decided(SessAddr)
        /\ reqPath = WsPath
        /\ lastAdmitted = StartPath
        /\ ipTestCount[SessAddr].activeTests = 0
        /\ ipTestCount[SessAddr].sinceLastTest < MinInterval * UnitsPerSecond)
          => Admitted(SessAddr)
      ]_vars

\* C38: in development mode, where ShouldEnforceRateLimit is false, no
\* request to /api/v1/speedtest/ws or /api/v1/speedtest/start is rejected by
\* rateLimitMiddleware.
C38_NoRejectionInDevelopment ==
    [][(/\ ~ShouldEnforceRateLimit(appMode)
        /\ Decided(SessAddr))
          => resp'.status # 429
      ]_vars

\* C39: a request to a path other than the two test-initiation paths is
\* always handed to the next handler, never takes the admission lock, and
\* the step that passes it leaves the whole ipTestCount table unchanged.
C39_OtherPathsUntouched ==
    [][/\ lastPassed' # NoPath =>
              /\ lastPassed' \notin {WsPath, StartPath}
              /\ UNCHANGED <<ipTestCount, ipMutex, serving, deferred>>
              /\ resp' = NoResp
       /\ reqPath' # NoPath => reqPath' \in {WsPath, StartPath}
       /\ appMode # NoMode => ENABLED FollowPass(OtherPath)
      ]_vars

\* An untouched pass at a table that holds MaxConcurrent active tests.
C39_Witness ==
    /\ lastPassed = OtherPath
    /\ ipTestCount[SessAddr].activeTests = MaxConcurrent

(***************************************************************************)
(* Properties of graceful shutdown (SpecShutdown).                         *)
(***************************************************************************)
\* C31: Store.Close happens only when no request handler and no test
\* goroutine that may still call the store is in flight, and no store call
\* is ever issued on a closed store.
C31_StoreOutlivesWork ==
    [][/\ (storeOpen /\ ~storeOpen') =>
              \A j \in Jobs : job[j].pc \notin {"running", "called"}
       /\ storeCalls'.closed = storeCalls.closed
      ]_vars

(***************************************************************************)
(* Properties of the admin login (SpecLogin).                              *)
(***************************************************************************)
\* C32: once the account has had MaxFailed (5) failed login attempts, and
\* for LockTicks (15 minutes) from the last of them, every login attempt
\* for the account that arrives in that window and is answered in it, one
\* with the right password included, is refused (its answer is not the
\* redirect of a login) and creates no admin session.
C32_LockedAccountRefused ==
    [][\A r \in Logins :
          (/\ InLockWindow
           /\ login[r].pc # "idle"
           /\ login[r].locked
           /\ login'[r] = NoLogin)
             => /\ loginResp' \in {401, 403, 500}
                /\ adminSessions' <= adminSessions
      ]_vars

\* The account has had five failed attempts, and inside the window an
\* attempt with the right password that arrived in it has been refused; no
\* admin session exists.
C32_Witness ==
    /\ adminRow # NoRow
    /\ failedLogins >= MaxFailed
    /\ InLockWindow
    /\ answered.pc # "idle"
    /\ answered.pwOk
    /\ answered.locked
    /\ loginResp = 401
    /\ adminSessions = 0

(***************************************************************************)
(* Properties of the scheduler (SpecScheduler).                            *)
(***************************************************************************)
\* The struct was stored in the task table and RemoveTask has deleted it.
Removed(o) == task[o] # NoTask /\ \A id \in TaskIDs : tasks[id] # o

MaxOf(a, b) == IF a >= b THEN a ELSE b

\* C33: after RemoveTask(id) has returned nil, no new invocation of the
\* removed task's handler begins, and an occurrence of its cron schedule
\* starts no run of it.
C33_RemovedNeverInvoked ==
    [][\A o \in Structs :
          Removed(o) =>
              /\ invocations'[o] = invocations[o]
              /\ (lastCall'.op = "occurrence" /\ lastCall'.struct = o)
                     => gor'[o] = gor[o]
      ]_vars

\* C34: after DisableTask(id) has returned nil and until EnableTask(id) is
\* called, no new invocation of the task's handler begins.
C34_DisabledNeverInvoked ==
    [][\A o \in Structs :
          switched[o] = "disabled" => invocations'[o] = invocations[o]
      ]_vars

\* C35: at every occurrence of the schedule of a task that is in the table,
\* has a valid schedule and was enabled by an EnableTask call that returned
\* nil, a run of the task starts.
C35_EnabledRunsOnSchedule ==
    [][\A o \in Structs :
          (/\ lastCall'.op = "occurrence"
           /\ lastCall'.struct = o
           /\ switched[o] = "enabled"
           /\ ~Removed(o))
             => gor'[o].check = gor[o].check + 1
      ]_vars

\* C36: a task with RetryOnFail and MaxRetries = m whose handler has always
\* failed has had at most max(1, m) handler invocations after one trigger,
\* and at most one more for each further trigger.
C36_RetriesBounded ==
    \A o \in Structs :
        (task[o].RetryOnFail /\ ~succeeded[o]) =>
            IF triggers[o] = 0 THEN invocations[o] = 0
            ELSE invocations[o] <=
                     MaxOf(1, task[o].MaxRetries) + (triggers[o] - 1)

\* One trigger of an always failing task with MaxRetries = 2 has run its
\* course: two invocations, nothing pending.
C36_Witness ==
    \E o \in Structs :
        /\ task[o].RetryOnFail /\ task[o].MaxRetries = 2
        /\ ~succeeded[o]
        /\ triggers[o] = 1
        /\ invocations[o] = 2
        /\ task[o].FailCount = 2
        /\ gor[o] = NoGor

\* C37: an AddTask that returns an error leaves the task table, the stored
\* tasks and the cron entries as they were; a task stored under an ID takes
\* the place of no other, and whatever is registered with cron has a valid
\* schedule and is stored.
C37_FailingAddChangesNothing ==
    [][/\ lastCall'.op = "AddTask" => UNCHANGED <<task, tasks, entries>>
       /\ \A id \in TaskIDs :
              (tasks'[id] # tasks[id] /\ tasks'[id] # Nil) => tasks[id] = Nil
       /\ \A o \in entries' \ entries :
              /\ ParseOk(task'[o].Schedule)
              /\ tasks'[task'[o].ID] = o
      ]_vars

\* AddTask has just refused a second struct for an ID that is present and
\* registered with cron.
C37_Witness ==
    /\ lastCall.op = "AddTask"
    /\ lastCall.err = "already exists"
    /\ \E id \in TaskIDs :
          /\ tasks[id] \notin {Nil, lastCall.struct}
          /\ tasks[id] \in entries

====
